---- MODULE Spec2Model ----
(***************************************************************************)
(* InsightBI: the KPI status classifier, the sales-pipeline rollup, the    *)
(* comment thread builder, the mention extractor and the action tracker,   *)
(* modelled from the TypeScript sources.                                   *)
(*                                                                         *)
(* Optional values (number | null, T | undefined) are sequences of length  *)
(* at most one: None is null / undefined, Some(x) is the value x.          *)
(***************************************************************************)
EXTENDS Integers, Sequences, FiniteSets, TLC

VARIABLES
    \* --- status classifier (MonthlyFollowDashboard.tsx, varColor) ---
    rate,             \* variance rate in units of 1/RateUnit percent, or None
    isHigherBetter,   \* KPI directionality flag
    color,            \* result of varColor, None before the call
    status,           \* result of getKPIStatus, None before the call
    \* --- pipeline rollup (lib/pipelineData.ts) ---
    pipelineStages,   \* configured stages, in declared order
    pipelineData,     \* pipeline items
    summary,          \* result of calculatePipelineSummary, None before the call
    threw,            \* TRUE iff calculatePipelineSummary raised an error
    weightedTotal,    \* result of getWeightedTotal, None before the call
    grossTotal,       \* result of getGrossTotal, None before the call
    lookupStage,      \* argument of the last getStageConfig call, None before it
    stageConfig,      \* result of getStageConfig: None is undefined
    \* --- comment thread builder (CommentSystem.commentTree) ---
    comments,         \* the flat comment list handed to the component
    inputReplies,     \* the replies field of each object of that list, None when absent
    byId,             \* working map: comment id -> replies array (ids of the nodes)
    topLevel,         \* working array of root nodes
    stack,            \* call stack of sortReplies: frames [owner, idx]
    pcTree,           \* "unmounted", "idle", "sorting", "done", or "overflow" (call stack exhausted)
    commentTree,      \* the returned forest (root ids), None before the return
    \* --- mention extraction (CommentInput, ActionTracker comment box) ---
    mounted,            \* which comment box is on screen: "CommentInput" or "ActionTracker"
    typed,              \* the text the user enters into that box
    content,            \* CommentInput: text of the textarea
    showMentionSuggest, \* CommentInput: suggestion dropdown shown
    submittedMentions,  \* CommentInput: mentions argument of the last onSubmit call, None before
    newComment,         \* ActionTracker: text of the comment box of the selected action
    showMentionList,    \* ActionTracker: suggestion dropdown shown
    activityMentions,   \* ActionTracker: metadata.mentions of the last comment activity, None before
    \* --- action tracker (ActionTracker) ---
    trackerData,      \* the data prop: warning threshold and gross margins
    actions,          \* the action list (state hook)
    selectedAction,   \* the selected action: a copy of a list entry, or None (null)
    isEditing,        \* the edit form is open
    editForm,         \* the edit form: action text, assignee, due date
    newSubTask,       \* text of the subtask input
    filterStatus,     \* status filter of the list
    now,              \* the clock reading Date.now()
    \* --- notification bell (NotificationSystem) ---
    notifications,    \* the notification list (state hook)
    isOpen,           \* the dropdown is shown
    navigatedTo,      \* action id of the last handleNavigate call, None before
    markedId,         \* argument of the last handleMarkAsRead call, None before
    \* --- comment submission (CommentSystem) ---
    replyingTo,       \* id of the comment being replied to, None is null
    replyContent,     \* text of the reply input
    onMentionUser,    \* TRUE iff the optional mention callback prop is given
    ownerAppends,     \* TRUE iff the owner's onAddComment / onAddReply keep the comment in the list
    addedComment,     \* argument of the last onAddComment / onAddReply call, None before
    mentionCalls,     \* the onMentionUser calls of the last submission, None before
    \* --- year-to-date aggregation (generateTimeSeriesData, MonthlyFollowDashboard) ---
    timeSeries,       \* result of generateTimeSeriesData, None before the call
    monthlyDataset,   \* the month records of the dashboard, in fiscal month order
    selectedMonth,    \* the month selected in the dashboard (index into the dataset)
    ytdData,          \* the memoised calculateYTD(monthlyDataset, selectedMonth)
    forecastData,     \* the memoised calculateForecast(monthlyDataset, selectedMonth)
    kpiDefinitions,   \* the KPI definitions of the dashboard
    rendered          \* what the last render derived: summary counts and the month-over-month cells

classifyVars == <<rate, isHigherBetter, color, status>>
pipelineVars == <<pipelineStages, pipelineData, summary, threw, weightedTotal,
                  grossTotal, lookupStage, stageConfig>>
treeVars == <<comments, inputReplies, byId, topLevel, stack, pcTree, commentTree>>
mentionVars == <<mounted, typed, content, showMentionSuggest, submittedMentions, newComment,
                 showMentionList, activityMentions>>
trackerVars == <<trackerData, actions, selectedAction, isEditing, editForm, newSubTask, filterStatus, now>>
notifyVars == <<notifications, isOpen, navigatedTo, markedId>>
threadVars == <<replyingTo, replyContent, onMentionUser, ownerAppends, addedComment, mentionCalls>>
ytdVars == <<timeSeries, monthlyDataset, selectedMonth, ytdData, forecastData, kpiDefinitions,
            rendered>>
vars == <<classifyVars, pipelineVars, treeVars, mentionVars, trackerVars, notifyVars, threadVars,
          ytdVars>>

\* what each component leaves alone
notClassifyVars == <<pipelineVars, treeVars, mentionVars, trackerVars, notifyVars, threadVars, ytdVars>>
notPipelineVars == <<classifyVars, treeVars, mentionVars, trackerVars, notifyVars, threadVars, ytdVars>>
notTreeVars == <<classifyVars, pipelineVars, mentionVars, trackerVars, notifyVars, threadVars, ytdVars>>
notMentionVars == <<classifyVars, pipelineVars, treeVars, notifyVars, threadVars, ytdVars>>
notYtdVars == <<classifyVars, pipelineVars, treeVars, mentionVars, trackerVars, notifyVars,
               threadVars>>
notThreadVars == <<classifyVars, pipelineVars, treeVars, trackerVars, notifyVars, ytdVars>>
notNotifyVars == <<classifyVars, pipelineVars, treeVars, mentionVars, trackerVars, threadVars, ytdVars>>

None == <<>>
Some(x) == <<x>>

Range(s) == {s[i] : i \in DOMAIN s}

\* all sequences over S of length at most n
RECURSIVE SeqsUpTo(_, _)
SeqsUpTo(S, n) ==
    IF n = 0 THEN {<<>>}
    ELSE LET shorter == SeqsUpTo(S, n - 1)
         IN  shorter \cup {Append(s, x) : s \in {t \in shorter : Len(t) = n - 1}, x \in S}

\* Array.prototype.reduce((sum, x) => sum + f(x), 0), left to right
RECURSIVE SumSeq(_)
SumSeq(s) == IF s = <<>> THEN 0 ELSE SumSeq(SubSeq(s, 1, Len(s) - 1)) + s[Len(s)]

(***************************************************************************)
(* Status classifier                                                       *)
(***************************************************************************)
MaxRate == 10            \* rates range over -MaxRate% .. +MaxRate%
RateUnit == 10           \* one percentage point is RateUnit units of rate
WarningThreshold == 5    \* percentage points below plan that are still a warning

Rates == (0 - MaxRate * RateUnit) .. (MaxRate * RateUnit)

varColor_strict(r, higher) ==
    IF r = None THEN "text-slate-300"
    ELSE LET effective == IF higher THEN r[1] ELSE 0 - r[1]
         IN  IF effective >= 0 THEN "text-emerald-600"
             ELSE IF effective > 0 - WarningThreshold * RateUnit THEN "text-amber-600"
             ELSE "text-red-600"

varColor(r, higher) ==
    IF r = None THEN "text-slate-300"
    ELSE LET effective == IF higher THEN r[1] ELSE 0 - r[1]
         IN  IF effective >= 0 THEN "text-emerald-600"
             ELSE IF effective >= 0 - WarningThreshold * RateUnit THEN "text-amber-600"
             ELSE "text-red-600"

\* the status level each colour class of varColor stands for
StatusOfColor(c) ==
    CASE c = "text-slate-300"   -> "pending"
      [] c = "text-emerald-600" -> "good"
      [] c = "text-amber-600"   -> "warning"
      [] c = "text-red-600"     -> "critical"

\* lib/monthlyData.ts is not among the sources; classify of spec 4.2
getKPIStatus(r, higher) ==
    IF r = None THEN "pending"
    ELSE LET effective == IF higher THEN r[1] ELSE 0 - r[1]
         IN  IF effective >= 0 THEN "good"
             ELSE IF effective >= 0 - WarningThreshold * RateUnit THEN "warning"
             ELSE "critical"

ClassifyInit ==
    /\ rate \in {None} \cup {Some(r) : r \in Rates}
    /\ isHigherBetter \in BOOLEAN
    /\ color = None
    /\ status = None

VarColor ==
    /\ color = None
    /\ color' = Some(varColor(rate, isHigherBetter))
    /\ UNCHANGED <<rate, isHigherBetter, status>>
    /\ UNCHANGED notClassifyVars

GetKPIStatus ==
    /\ status = None
    /\ status' = Some(getKPIStatus(rate, isHigherBetter))
    /\ UNCHANGED <<rate, isHigherBetter, color>>
    /\ UNCHANGED notClassifyVars

(***************************************************************************)
(* Pipeline rollup                                                         *)
(***************************************************************************)
MaxItems == 2            \* pipeline items
Percent == 100           \* probabilities are percentages

\* stage ids a pipeline item can carry, and those of them a configuration lists
StageIds == {"A", "B", "C"}
ConfiguredStageIds == {"A", "B"}
Probabilities == {0, 50, 80, 100}
\* Money is held in hundredths of the amount unit, so that multiplying by
\* probability / 100 is exact.
Amounts == {0, 10 * Percent, 20 * Percent}

StageConfigs == [id : ConfiguredStageIds, probability : Probabilities]
Items == [amount : Amounts, stage : StageIds]

DistinctIds(s) == \A i, j \in DOMAIN s : i /= j => s[i].id /= s[j].id

\* groups by the stages found while walking the items
calculatePipelineSummary_discovery(stages, data) ==
    LET Found(stage) == \E i \in DOMAIN data : data[i].stage = stage.id
        found == SelectSeq(stages, Found)
    IN  [k \in DOMAIN found |->
            LET stage == found[k]
                InStage(p) == p.stage = stage.id
                items == SelectSeq(data, InStage)
                totalAmount == SumSeq([i \in DOMAIN items |-> items[i].amount])
            IN  [stage |-> stage.id,
                 count |-> Len(items),
                 totalAmount |-> totalAmount,
                 weightedAmount |-> (totalAmount * stage.probability) \div Percent]]

\* weights by the complement of the probability
calculatePipelineSummary_complement(stages, data) ==
    [k \in DOMAIN stages |->
        LET stage == stages[k]
            InStage(p) == p.stage = stage.id
            items == SelectSeq(data, InStage)
            totalAmount == SumSeq([i \in DOMAIN items |-> items[i].amount])
        IN  [stage |-> stage.id,
             count |-> Len(items),
             totalAmount |-> totalAmount,
             weightedAmount |-> (totalAmount * (Percent - stage.probability)) \div Percent]]

calculatePipelineSummary(stages, data) ==
    [k \in DOMAIN stages |->
        LET stage == stages[k]
            InStage(p) == p.stage = stage.id
            items == SelectSeq(data, InStage)   \* Array.prototype.filter
            totalAmount == SumSeq([i \in DOMAIN items |-> items[i].amount])
        IN  [stage |-> stage.id,
             count |-> Len(items),
             totalAmount |-> totalAmount,
             weightedAmount |-> (totalAmount * stage.probability) \div Percent]]

\* treats the probability as a fraction, not a percentage
getWeightedTotal_unscaled(stages, data) ==
    LET s == calculatePipelineSummary(stages, data)
    IN  SumSeq([i \in DOMAIN s |-> s[i].totalAmount * stages[i].probability])

getWeightedTotal(stages, data) ==
    LET s == calculatePipelineSummary(stages, data)
    IN  SumSeq([i \in DOMAIN s |-> s[i].weightedAmount])

getGrossTotal(stages, data) ==
    LET s == calculatePipelineSummary(stages, data)
    IN  SumSeq([i \in DOMAIN s |-> s[i].totalAmount])

\* Array.prototype.find; the non-null assertion (!) has no run-time effect
getStageConfig(stages, stage) ==
    LET hits == {i \in DOMAIN stages : stages[i].id = stage}
    IN  IF hits = {} THEN None
        ELSE Some(stages[CHOOSE i \in hits : \A j \in hits : i <= j])

PipelineInit ==
    /\ pipelineStages \in {s \in SeqsUpTo(StageConfigs, Cardinality(ConfiguredStageIds)) :
                              DistinctIds(s)}
    /\ pipelineData \in SeqsUpTo(Items, MaxItems)
    /\ summary = None
    /\ threw = FALSE
    /\ weightedTotal = None
    /\ grossTotal = None
    /\ lookupStage = None
    /\ stageConfig = None

CalculatePipelineSummary ==
    /\ summary = None
    /\ summary' = Some(calculatePipelineSummary(pipelineStages, pipelineData))
    /\ threw' = FALSE
    /\ UNCHANGED <<pipelineStages, pipelineData, weightedTotal, grossTotal,
                   lookupStage, stageConfig>>
    /\ UNCHANGED notPipelineVars

GetWeightedTotal ==
    /\ weightedTotal = None
    /\ weightedTotal' = Some(getWeightedTotal(pipelineStages, pipelineData))
    /\ UNCHANGED <<pipelineStages, pipelineData, summary, threw, grossTotal,
                   lookupStage, stageConfig>>
    /\ UNCHANGED notPipelineVars

GetGrossTotal ==
    /\ grossTotal = None
    /\ grossTotal' = Some(getGrossTotal(pipelineStages, pipelineData))
    /\ UNCHANGED <<pipelineStages, pipelineData, summary, threw, weightedTotal,
                   lookupStage, stageConfig>>
    /\ UNCHANGED notPipelineVars

GetStageConfig ==
    /\ lookupStage = None
    /\ \E stage \in StageIds :
        /\ lookupStage' = Some(stage)
        /\ stageConfig' = getStageConfig(pipelineStages, stage)
    /\ UNCHANGED <<pipelineStages, pipelineData, summary, threw, weightedTotal,
                   grossTotal>>
    /\ UNCHANGED notPipelineVars

(***************************************************************************)
(* Comment thread builder                                                  *)
(*                                                                         *)
(* Nodes are objects shared by reference between byId, topLevel and the    *)
(* replies arrays, so an array of nodes is a sequence of comment ids and   *)
(* byId[id] is the replies array of the node with that id.  The i-th       *)
(* comment of a flat list has id i.                                        *)
(***************************************************************************)
MaxComments == 3         \* length of the flat comment list
MaxTime == 2             \* createdAt instants are 1 .. MaxTime

\* parentId: null, the id of a comment of the list, or an id that is not there
ParentIds == {None} \cup {Some(p) : p \in 1 .. MaxComments + 1}

CommentLists ==
    UNION {[1 .. n -> [parentId : ParentIds, createdAt : 1 .. MaxTime]] : n \in 0 .. MaxComments}

\* the regression input of spec section 8: ids 1..4, comment 4 has parent 99
ExampleComments ==
    <<[parentId |-> None, createdAt |-> 10], [parentId |-> Some(1), createdAt |-> 20],
      [parentId |-> Some(1), createdAt |-> 5], [parentId |-> Some(99), createdAt |-> 1]>>

\* new Date(createdAt).getTime() of the comment with the given id
getTime(cs, id) == cs[id].createdAt

sortByDate_descending(cs, a, b) == getTime(cs, b) - getTime(cs, a)

sortByDate(cs, a, b) == getTime(cs, a) - getTime(cs, b)

\* orders equal elements by descending position
ArraySort_unstable(cs, arr) ==
    LET Before(i, j) == \/ sortByDate(cs, arr[i], arr[j]) < 0
                        \/ sortByDate(cs, arr[i], arr[j]) = 0 /\ i > j
        Rank(i) == 1 + Cardinality({j \in DOMAIN arr : j /= i /\ Before(j, i)})
    IN  [k \in DOMAIN arr |-> arr[CHOOSE i \in DOMAIN arr : Rank(i) = k]]

\* Array.prototype.sort(sortByDate): ascending by the comparator and stable
\* (ECMAScript 2019), so an element goes behind those that compare lower and
\* behind those that compare equal and stand before it
ArraySort(cs, arr) ==
    LET Before(i, j) == \/ sortByDate(cs, arr[i], arr[j]) < 0
                        \/ sortByDate(cs, arr[i], arr[j]) = 0 /\ i < j
        Rank(i) == 1 + Cardinality({j \in DOMAIN arr : j /= i /\ Before(j, i)})
    IN  [k \in DOMAIN arr |-> arr[CHOOSE i \in DOMAIN arr : Rank(i) = k]]

\* c.parentId && byId.has(c.parentId)
HasParent(cs, i) == cs[i].parentId /= None /\ cs[i].parentId[1] \in DOMAIN cs

\* only comments without a parentId become roots
RECURSIVE attach_dropOrphans(_, _)
attach_dropOrphans(cs, n) ==
    IF n = 0 THEN [replies |-> [id \in DOMAIN cs |-> <<>>], topLevel |-> <<>>]
    ELSE LET before == attach_dropOrphans(cs, n - 1)
         IN  IF HasParent(cs, n)
             THEN [before EXCEPT !.replies[cs[n].parentId[1]] = Append(@, n)]
             ELSE IF cs[n].parentId = None
                  THEN [before EXCEPT !.topLevel = Append(@, n)]
                  ELSE before

\* the else is missing: every comment is pushed to topLevel as well
RECURSIVE attach_noElse(_, _)
attach_noElse(cs, n) ==
    IF n = 0 THEN [replies |-> [id \in DOMAIN cs |-> <<>>], topLevel |-> <<>>]
    ELSE LET before == attach_noElse(cs, n - 1)
             pushed == [before EXCEPT !.topLevel = Append(@, n)]
         IN  IF HasParent(cs, n)
             THEN [pushed EXCEPT !.replies[cs[n].parentId[1]] = Append(@, n)]
             ELSE pushed

\* first pass (index every comment with replies = []) and the first n
\* iterations of the second pass
RECURSIVE attach(_, _)
attach(cs, n) ==
    IF n = 0 THEN [replies |-> [id \in DOMAIN cs |-> <<>>], topLevel |-> <<>>]
    ELSE LET before == attach(cs, n - 1)
         IN  IF HasParent(cs, n)
             THEN [before EXCEPT !.replies[cs[n].parentId[1]] = Append(@, n)]
             ELSE [before EXCEPT !.topLevel = Append(@, n)]

\* the nodes of byId are the objects of the flat list themselves
NodeOf_input(c) == "input"

\* byId.set(c.id, { ...c, replies: [] }): the node of a comment is a fresh object
\* with the comment's fields and a fresh replies array
NodeOf(c) == "copy"

\* the replies fields of the objects of the flat list once the replies arrays of the
\* nodes are written: the nodes are copies, so a write reaches no object of the list
WrittenTo(cs, input, replies) ==
    [id \in DOMAIN input |-> IF NodeOf(cs[id]) = "input" THEN Some(replies[id]) ELSE input[id]]

\* the array a frame of sortReplies iterates: topLevel (owner 0) or a replies array
ArrayOf(owner) == IF owner = 0 THEN topLevel ELSE byId[owner]

TreeInit ==
    /\ comments = <<>>
    /\ inputReplies = <<>>
    /\ byId = <<>>
    /\ topLevel = <<>>
    /\ stack = <<>>
    /\ pcTree = "unmounted"
    /\ commentTree = None

\* the component is rendered with its comments prop
Render ==
    /\ pcTree = "unmounted"
    /\ comments' \in CommentLists \cup {ExampleComments}
    /\ \E r \in (IF comments' = ExampleComments THEN {None, Some(<<>>)} ELSE {None}) :
          inputReplies' = [id \in DOMAIN comments' |-> r]
    /\ pcTree' = "idle"
    /\ UNCHANGED <<byId, topLevel, stack, commentTree>>
    /\ UNCHANGED notTreeVars

\* both passes, topLevel.sort(sortByDate), and the call sortReplies(topLevel),
\* which sorts topLevel again and starts its forEach
BuildTree ==
    /\ pcTree = "idle"
    /\ \E built \in {attach(comments, Len(comments))} :
       \E sorted \in {ArraySort(comments, built.topLevel)} :   \* topLevel.sort(sortByDate)
           /\ byId' = built.replies
           /\ topLevel' = ArraySort(comments, sorted)          \* items.sort(sortByDate)
    /\ inputReplies' = WrittenTo(comments, inputReplies, byId')
    /\ stack' = <<[owner |-> 0, idx |-> 1]>>
    /\ pcTree' = "sorting"
    /\ UNCHANGED <<comments, commentTree>>
    /\ UNCHANGED notTreeVars

\* one iteration of the forEach of the innermost sortReplies call: either the
\* array is exhausted and the call returns, or the next item's replies are
\* sorted and a nested call starts.  A call stack deeper than the number of
\* nodes plus one holds some node twice and never unwinds: RangeError.
SortRepliesStep ==
    /\ pcTree = "sorting"
    /\ LET frame == stack[Len(stack)]
           items == ArrayOf(frame.owner)
       IN  IF frame.idx > Len(items)
           THEN /\ stack' = SubSeq(stack, 1, Len(stack) - 1)
                /\ pcTree' = IF Len(stack) = 1 THEN "done" ELSE "sorting"
                /\ commentTree' = IF Len(stack) = 1 THEN Some(topLevel) ELSE None
                /\ UNCHANGED <<byId, topLevel, inputReplies>>
           ELSE LET item == items[frame.idx]
                IN  /\ byId' = [byId EXCEPT ![item] = ArraySort(comments, @)]
                    /\ inputReplies' = WrittenTo(comments, inputReplies, byId')
                    /\ stack' = Append([stack EXCEPT ![Len(stack)].idx = @ + 1],
                                       [owner |-> item, idx |-> 1])
                    /\ pcTree' = IF Len(stack) > Len(comments) THEN "overflow" ELSE "sorting"
                    /\ UNCHANGED <<topLevel, commentTree>>
    /\ UNCHANGED comments
    /\ UNCHANGED notTreeVars

(***************************************************************************)
(* Mention extraction                                                      *)
(*                                                                         *)
(* A text is a sequence of characters.  The alphabet has the at sign, one  *)
(* whitespace character, two letters and a punctuation mark; user names    *)
(* are abbreviated to words over the letters.  The user enters one text,   *)
(* fixed at the start, any number of times; the caret is at its end.  The  *)
(* query string and the position of the suggestion dropdowns only feed     *)
(* their display and are left out.                                         *)
(***************************************************************************)
MaxContentLen == 5       \* length of a typed text

Chars == {"@", " ", "a", "b", "!"}
Whitespace == {" "}
Texts == SeqsUpTo(Chars, MaxContentLen)

\* the user directory of CommentSystem
DEMO_USERS ==
    <<[id |-> "u1", name |-> <<"a">>], [id |-> "u2", name |-> <<"b">>],
      [id |-> "u3", name |-> <<"a", "b">>]>>

\* String.prototype.trim() leaves the empty string
IsBlank(text) == \A i \in DOMAIN text : text[i] \in Whitespace

\* end of the maximal run of non-whitespace characters that starts at i
RECURSIVE RunEnd(_, _)
RunEnd(text, i) ==
    IF i < Len(text) /\ text[i + 1] \notin Whitespace THEN RunEnd(text, i + 1) ELSE i

\* the capture groups of the successive matches of /@(\S+)/g from position i on
RECURSIVE MatchAll(_, _)
MatchAll(text, i) ==
    IF i > Len(text) THEN <<>>
    ELSE IF text[i] = "@" /\ i < Len(text) /\ text[i + 1] \notin Whitespace
         THEN <<SubSeq(text, i + 1, RunEnd(text, i + 1))>>
                  \o MatchAll(text, RunEnd(text, i + 1) + 1)
         ELSE MatchAll(text, i + 1)

\* DEMO_USERS.find(u => u.name === mentionName): None is undefined
FindUser(mentionName) ==
    LET hits == {k \in DOMAIN DEMO_USERS : DEMO_USERS[k].name = mentionName}
    IN  IF hits = {} THEN None
        ELSE Some(DEMO_USERS[CHOOSE k \in hits : \A j \in hits : k <= j])

\* the while loop of handleSubmit over the first n matches
RECURSIVE ExtractMentions(_, _)
ExtractMentions(matches, n) ==
    IF n = 0 THEN <<>>
    ELSE LET extracted == ExtractMentions(matches, n - 1)
             user == FindUser(matches[n])
         IN  IF user /= None /\ user[1].id \notin Range(extracted)
             THEN Append(extracted, user[1].id)
             ELSE extracted

\* newComment.match(/@(\S+)/g)?.map(m => m.slice(1)) || []
MatchedNames(text) == MatchAll(text, 1)

\* textBeforeCursor has an at sign with no space behind it (caret at the end)
OpenMention(text) ==
    \E i \in DOMAIN text :
        /\ text[i] = "@"
        /\ \A j \in DOMAIN text : j > i => text[j] /= "@"
        /\ \A j \in DOMAIN text : j > i => text[j] \notin Whitespace

\* value.match(/@(\S*)$/)
EndsInMention(text) ==
    \E i \in DOMAIN text :
        /\ text[i] = "@"
        /\ \A j \in DOMAIN text : j > i => text[j] \notin Whitespace

(***************************************************************************)
(* Action tracker: data and pure functions                                 *)
(*                                                                         *)
(* An action is a record [id, action, assignee, dueDate, status, metrics,  *)
(* subTasks, activities]; an activity is [id, type, from, to, mentions,    *)
(* reactions], where from and to are None when the metadata has none, and  *)
(* an absent reactions array is the empty one (the code reads it through   *)
(* "reactions || []").  Ids made from Date.now() are pairs <<prefix, ms>>; *)
(* the ids of the seeded demo data are pairs <<"seed", k>>.  Dates are     *)
(* days, clock readings are milliseconds.  Category, priority, watchers,   *)
(* author, content and the timestamps of a record are only displayed and   *)
(* are left out, as are the filters other than the status filter: at their *)
(* default 'all' they hide no action of the list.                          *)
(***************************************************************************)
MaxMade == 2             \* records (activities, subtasks) the handlers add to the list
MaxCreated == 2          \* actions handleCreateAction adds to the list
MaxClock == 1            \* last clock reading, in milliseconds

MsPerDay == 86400000
DueInDays == 14

ActionStatuses == {"pending", "in_progress", "completed", "overdue"}
\* the status buttons of the detail pane, without the one for completed
StatusButtons_noCompleted == {"pending", "in_progress"}

\* the status buttons of the detail pane
StatusButtons == {"pending", "in_progress", "completed"}

getStatusLabel(s) ==
    CASE s = "pending" -> "michakushu"
      [] s = "in_progress" -> "shinkochu"
      [] s = "completed" -> "kanryo"
      [] s = "overdue" -> "kigenchoka"

CURRENT_USER == [id |-> "1", name |-> "yamada"]
OtherUserName == "sato"
Unassigned == "mitei"

\* one of the five emojis of the picker
Emojis == {"thumbsup"}
\* the emojis of the seeded reactions
SeedEmojis == {"thumbsup", "eyes"}

ActionTexts == {"plan"}
Assignees == {"", CURRENT_USER.name}
PastDay == 0 - 1
\* date strings: the empty string is <<>>
DueDates == {<<PastDay>>, <<DueInDays>>}
SubTaskTexts == {<<>>, <<"s">>}
FilterValues == {"all", "completed"}
\* the texts typed into the comment box of the tracker
TrackerTexts == {<<"@", "a">>}

DayOf(ms) == ms \div MsPerDay

Activity(id, type, from, to, mentions, reactions) ==
    [id |-> id, type |-> type, from |-> from, to |-> to,
     mentions |-> mentions, reactions |-> reactions]

\* Array.prototype.map on an array
MapSeq(arr, F(_)) == [k \in DOMAIN arr |-> F(arr[k])]

\* the reactions of one activity after CURRENT_USER (user) clicks emoji,
\* when a click never takes the user out of an entry
ToggleReaction_noLeave(reactions, emoji, user) ==
    LET hits == {k \in DOMAIN reactions : reactions[k].emoji = emoji}
        join(r) == IF r.emoji = emoji /\ user \notin Range(r.users)
                   THEN [r EXCEPT !.users = Append(r.users, user)] ELSE r
    IN  IF hits = {} THEN Append(reactions, [emoji |-> emoji, users |-> <<user>>])
        ELSE MapSeq(reactions, join)

\* the reactions of one activity after CURRENT_USER (user) clicks emoji,
\* without the removal of the emptied entries
ToggleReaction_noPrune(reactions, emoji, user) ==
    LET hits == {k \in DOMAIN reactions : reactions[k].emoji = emoji}
        without(u) == u /= user
        leave(r) == IF r.emoji = emoji
                    THEN [r EXCEPT !.users = SelectSeq(r.users, without)] ELSE r
        join(r) == IF r.emoji = emoji THEN [r EXCEPT !.users = Append(r.users, user)] ELSE r
    IN  IF hits = {} THEN Append(reactions, [emoji |-> emoji, users |-> <<user>>])
        ELSE IF user \in Range(reactions[CHOOSE k \in hits : \A j \in hits : k <= j].users)
             THEN MapSeq(reactions, leave)
             ELSE MapSeq(reactions, join)

\* the reactions of one activity after CURRENT_USER (user) clicks emoji
ToggleReaction(reactions, emoji, user) ==
    LET hits == {k \in DOMAIN reactions : reactions[k].emoji = emoji}
        without(u) == u /= user
        inUse(r) == Len(r.users) > 0
        leave(r) == IF r.emoji = emoji
                    THEN [r EXCEPT !.users = SelectSeq(r.users, without)] ELSE r
        join(r) == IF r.emoji = emoji THEN [r EXCEPT !.users = Append(r.users, user)] ELSE r
    IN  IF hits = {} THEN Append(reactions, [emoji |-> emoji, users |-> <<user>>])
        ELSE IF user \in Range(reactions[CHOOSE k \in hits : \A j \in hits : k <= j].users)
             THEN SelectSeq(MapSeq(reactions, leave), inUse)
             ELSE MapSeq(reactions, join)

\* activities.map(act => act.id !== activityId ? act : { ...act, reactions toggled })
ReactTo(activities, activityId, emoji) ==
    LET toggled(act) ==
            IF act.id /= activityId THEN act
            ELSE [act EXCEPT !.reactions = ToggleReaction(act.reactions, emoji, CURRENT_USER.name)]
    IN  MapSeq(activities, toggled)

\* subTasks.map(st => st.id === subTaskId ? { ...st, completed: !st.completed } : st)
ToggleSubTasks(subTasks, subTaskId) ==
    LET flipped(st) == IF st.id = subTaskId THEN [st EXCEPT !.completed = ~st.completed] ELSE st
    IN  MapSeq(subTasks, flipped)

\* an issue for every gross margin at or below the threshold
detectedIssues_atThreshold ==
    LET below(m) == m <= trackerData.marginWarning
        issue(m) == [currentValue |-> m, targetValue |-> trackerData.marginWarning]
    IN  MapSeq(SelectSeq(trackerData.margins, below), issue)

\* the issues detected in the data prop: one per gross margin below the threshold
detectedIssues ==
    LET below(m) == m < trackerData.marginWarning
        issue(m) == [currentValue |-> m, targetValue |-> trackerData.marginWarning]
    IN  MapSeq(SelectSeq(trackerData.margins, below), issue)

\* the list as shown: the entries (by position) that pass the status filter
filteredActions ==
    {k \in DOMAIN actions : filterStatus = "all" \/ actions[k].status = filterStatus}

\* { ...action, activities: [...action.activities, activity] }
Pushed(action, activity) == [action EXCEPT !.activities = Append(@, activity)]

\* prev.map(action => action.id === id ? { ...action, activities: [..., activity] } : action)
AppendActivity(list, id, activity) ==
    LET pushed(action) == IF action.id = id THEN Pushed(action, activity) ELSE action
    IN  MapSeq(list, pushed)

\* the number of records the handlers have added to the list so far
RECURSIVE MadeIn(_)
MadeIn(list) ==
    IF list = <<>> THEN 0
    ELSE LET action == list[Len(list)]
             fresh(x) == x.id[1] /= "seed" /\ ("type" \notin DOMAIN x \/ x.type /= "created")
         IN  MadeIn(SubSeq(list, 1, Len(list) - 1))
                 + Len(SelectSeq(action.activities, fresh))
                 + Len(SelectSeq(action.subTasks, fresh))

CanMake == MadeIn(actions) < MaxMade

\* the number of actions handleCreateAction has added to the list so far
CreatedIn(list) == Cardinality({k \in DOMAIN list : list[k].id[1] /= "seed"})

CanCreate == CreatedIn(actions) < MaxCreated

FormOf(action) ==
    [action |-> action.action, assignee |-> action.assignee, dueDate |-> action.dueDate]

MentionInit ==
    /\ mounted \in {"CommentInput", "ActionTracker"}
    /\ typed \in Texts
    /\ content = <<>>
    /\ showMentionSuggest = FALSE
    /\ submittedMentions = None
    /\ newComment = <<>>
    /\ showMentionList = FALSE
    /\ activityMentions = None

\* CommentInput.handleChange
HandleChange ==
    /\ mounted = "CommentInput"
    /\ content' = typed
    /\ showMentionSuggest' = OpenMention(typed)
    /\ UNCHANGED <<mounted, typed, submittedMentions, newComment, showMentionList, activityMentions>>
    /\ UNCHANGED <<notMentionVars, trackerVars>>

\* CommentInput.handleSubmit
HandleSubmit ==
    /\ mounted = "CommentInput"
    /\ ~IsBlank(content)
    /\ \E matches \in {MatchAll(content, 1)} :
        submittedMentions' = Some(ExtractMentions(matches, Len(matches)))
    /\ content' = <<>>
    /\ UNCHANGED <<mounted, typed, showMentionSuggest, newComment, showMentionList, activityMentions>>
    /\ UNCHANGED <<notMentionVars, trackerVars>>

\* ActionTracker.handleCommentChange; the box belongs to the selected action
HandleCommentChange ==
    /\ mounted = "ActionTracker"
    /\ selectedAction /= None
    /\ newComment' = typed
    /\ showMentionList' = EndsInMention(typed)
    /\ UNCHANGED <<mounted, typed, content, showMentionSuggest, submittedMentions, activityMentions>>
    /\ UNCHANGED <<notMentionVars, trackerVars>>

\* ActionTracker.handleAddComment
HandleAddComment ==
    /\ mounted = "ActionTracker"
    /\ ~IsBlank(newComment)
    /\ selectedAction /= None
    /\ CanMake
    /\ \E activity \in {Activity(<<"act", now>>, "comment", None, None,
                                  MatchedNames(newComment), <<>>)} :
          /\ activityMentions' = Some(activity.mentions)
          /\ actions' = AppendActivity(actions, selectedAction[1].id, activity)
          /\ selectedAction' = Some(Pushed(selectedAction[1], activity))
    /\ newComment' = <<>>
    /\ UNCHANGED <<mounted, typed, content, showMentionSuggest, submittedMentions, showMentionList>>
    /\ UNCHANGED <<trackerData, isEditing, editForm, newSubTask, filterStatus, now>>
    /\ UNCHANGED notMentionVars

(***************************************************************************)
(* Action tracker: state and handlers                                      *)
(***************************************************************************)
notTrackerVars == <<classifyVars, pipelineVars, treeVars, mentionVars, notifyVars, threadVars, ytdVars>>

\* entries of a reactions array: an emoji and its users, each user once
ReactionEntries ==
    {[emoji |-> e, users |-> u] :
        e \in SeedEmojis,
        u \in {<<CURRENT_USER.name>>, <<OtherUserName>>,
               <<CURRENT_USER.name, OtherUserName>>, <<OtherUserName, CURRENT_USER.name>>}}

\* well-formed reactions arrays: no emoji twice
SeedReactions ==
    {<<>>} \cup {<<r>> : r \in ReactionEntries}
           \cup {p \in ReactionEntries \X ReactionEntries : p[1].emoji /= p[2].emoji}

\* a seeded list as of generateInitialActions: one action with one comment
SeedAction(st, reactions) ==
    [id |-> <<"seed", 1>>, action |-> "plan", assignee |-> CURRENT_USER.name,
     dueDate |-> <<DueInDays>>, status |-> st,
     metrics |-> [before |-> 8, current |-> 9, target |-> 14],
     subTasks |-> <<[id |-> <<"seed", 1>>, completed |-> FALSE]>>,
     activities |-> <<Activity(<<"seed", 1>>, "comment", None, None, <<>>, reactions)>>]

SeedActions ==
    {<<SeedAction(st, r)>> :
        st \in {"pending", "overdue"},
        r \in {<<[emoji |-> "thumbsup", users |-> <<OtherUserName>>]>>}}

TrackerDatas == {[marginWarning |-> 10, margins |-> <<12, 10, 8>>]}

TrackerInit ==
    /\ trackerData \in TrackerDatas
    /\ actions \in SeedActions
    /\ selectedAction = None
    /\ isEditing = FALSE
    /\ editForm = [action |-> "", assignee |-> "", dueDate |-> <<>>]
    /\ newSubTask = <<>>
    /\ filterStatus = "all"
    /\ now = 0

\* Date.now() moves on
Tick ==
    /\ now < MaxClock
    /\ now' = now + 1
    /\ UNCHANGED <<trackerData, actions, selectedAction, isEditing, editForm, newSubTask, filterStatus>>
    /\ UNCHANGED notTrackerVars

\* onChange of the status filter
SetFilterStatus ==
    /\ \E f \in FilterValues \ {filterStatus} : filterStatus' = f
    /\ UNCHANGED <<trackerData, actions, selectedAction, isEditing, editForm, newSubTask, now>>
    /\ UNCHANGED notTrackerVars

\* click on an entry of the list
SelectAction ==
    /\ \E k \in filteredActions :
          /\ selectedAction' = Some(actions[k])
          /\ editForm' = FormOf(actions[k])
    /\ isEditing' = FALSE
    /\ UNCHANGED <<trackerData, actions, newSubTask, filterStatus, now>>
    /\ UNCHANGED notTrackerVars

\* the pencil button of the detail pane
ToggleEditing ==
    /\ selectedAction /= None
    /\ isEditing' = ~isEditing
    /\ editForm' = FormOf(selectedAction[1])
    /\ UNCHANGED <<trackerData, actions, selectedAction, newSubTask, filterStatus, now>>
    /\ UNCHANGED notTrackerVars

\* onChange of the three inputs of the edit form
SetEditForm ==
    /\ selectedAction /= None
    /\ isEditing
    /\ \/ \E v \in ActionTexts \ {editForm.action} : editForm' = [editForm EXCEPT !.action = v]
       \/ \E v \in Assignees \ {editForm.assignee} : editForm' = [editForm EXCEPT !.assignee = v]
       \/ \E v \in DueDates \ {editForm.dueDate} : editForm' = [editForm EXCEPT !.dueDate = v]
    /\ UNCHANGED <<trackerData, actions, selectedAction, isEditing, newSubTask, filterStatus, now>>
    /\ UNCHANGED notTrackerVars

\* the cancel button of the edit form
CancelEdit ==
    /\ selectedAction /= None
    /\ isEditing
    /\ isEditing' = FALSE
    /\ UNCHANGED <<trackerData, actions, selectedAction, editForm, newSubTask, filterStatus, now>>
    /\ UNCHANGED notTrackerVars

\* the saved action when a due date in the past also marks the action overdue
SavedEdit_autoOverdue(action, form, activities) ==
    [action EXCEPT !.action = form.action, !.assignee = form.assignee,
                   !.dueDate = form.dueDate, !.activities = activities,
                   !.status = IF form.dueDate /= <<>> /\ form.dueDate[1] < DayOf(now)
                              THEN "overdue" ELSE @]

\* { ...action, action, assignee, dueDate, updatedAt, activities } of handleSaveEdit
SavedEdit(action, form, activities) ==
    [action EXCEPT !.action = form.action, !.assignee = form.assignee,
                   !.dueDate = form.dueDate, !.activities = activities]

\* handleSaveEdit, from the save button of the edit form
HandleSaveEdit ==
    /\ selectedAction /= None
    /\ isEditing
    /\ editForm.assignee /= selectedAction[1].assignee => CanMake
    /\ \E activities \in
          {IF editForm.assignee /= selectedAction[1].assignee
           THEN Append(selectedAction[1].activities,
                       Activity(<<"act", now>>, "assignee_change",
                                Some(IF selectedAction[1].assignee = "" THEN Unassigned
                                     ELSE selectedAction[1].assignee),
                                Some(IF editForm.assignee = "" THEN Unassigned
                                     ELSE editForm.assignee),
                                <<>>, <<>>))
           ELSE selectedAction[1].activities} :
          LET saved(action) == SavedEdit(action, editForm, activities)
              savedIn(action) == IF action.id = selectedAction[1].id THEN saved(action) ELSE action
          IN  /\ actions' = MapSeq(actions, savedIn)
              /\ selectedAction' = Some(saved(selectedAction[1]))
    /\ isEditing' = FALSE
    /\ UNCHANGED <<trackerData, editForm, newSubTask, filterStatus, now>>
    /\ UNCHANGED notTrackerVars

\* the width of the progress bar in percent, Math.min(100, Math.max(0, ratio * 100)) with
\* ratio = (current - before) / (target - before): a fraction [num, den] with den > 0,
\* or NaN for 0 / 0; x / 0 is Infinity or -Infinity, clamped to 100 or 0
NaN == [num |-> 0, den |-> 0]

ProgressWidth(metrics) ==
    LET num == (metrics.current - metrics.before) * 100
        den == metrics.target - metrics.before
    IN  IF den = 0
        THEN IF num = 0 THEN NaN
             ELSE IF num > 0 THEN [num |-> 100, den |-> 1] ELSE [num |-> 0, den |-> 1]
        ELSE IF num = 0 \/ (num > 0) /= (den > 0) THEN [num |-> 0, den |-> 1]
        ELSE IF num * num >= 100 * 100 * den * den THEN [num |-> 100, den |-> 1]
        ELSE IF den > 0 THEN [num |-> num, den |-> den] ELSE [num |-> 0 - num, den |-> 0 - den]

\* the progress bar of the detail pane, shown for the selected action outside edit mode
ProgressBar ==
    IF selectedAction /= None /\ ~isEditing
    THEN Some(ProgressWidth(selectedAction[1].metrics)) ELSE None

\* handleStatusChange(actionId, newStatus)
HandleStatusChange(actionId, newStatus) ==
    /\ \E k \in DOMAIN actions : actions[k].id = actionId
    /\ CanMake
    /\ LET oldAction == actions[CHOOSE k \in DOMAIN actions :
                                   /\ actions[k].id = actionId
                                   /\ \A j \in DOMAIN actions : actions[j].id = actionId => k <= j]
           activity == Activity(<<"act", now>>, "status_change",
                                Some(getStatusLabel(oldAction.status)),
                                Some(getStatusLabel(newStatus)), <<>>, <<>>)
           moved(action) == [Pushed(action, activity) EXCEPT !.status = newStatus]
           movedIn(action) == IF action.id = actionId THEN moved(action) ELSE action
       IN  /\ actions' = MapSeq(actions, movedIn)
           /\ selectedAction' =
                 IF selectedAction /= None /\ selectedAction[1].id = actionId
                 THEN Some(moved(selectedAction[1])) ELSE selectedAction
    /\ UNCHANGED <<trackerData, isEditing, editForm, newSubTask, filterStatus, now>>
    /\ UNCHANGED notTrackerVars

\* the status buttons of the detail pane
ClickStatus ==
    /\ selectedAction /= None
    /\ \E newStatus \in StatusButtons : HandleStatusChange(selectedAction[1].id, newStatus)

\* handleAddReaction(activityId, emoji)
HandleAddReaction(activityId, emoji) ==
    /\ selectedAction /= None
    /\ LET reacted(action) == [action EXCEPT !.activities = ReactTo(@, activityId, emoji)]
           reactedIn(action) == IF action.id /= selectedAction[1].id THEN action
                                ELSE reacted(action)
       IN  /\ actions' = MapSeq(actions, reactedIn)
           /\ selectedAction' = Some(reacted(selectedAction[1]))
    /\ UNCHANGED <<trackerData, isEditing, editForm, newSubTask, filterStatus, now>>
    /\ UNCHANGED notTrackerVars

\* the reaction buttons and the emoji picker under a comment of the detail pane
ClickReaction ==
    /\ selectedAction /= None
    /\ \E k \in DOMAIN selectedAction[1].activities :
          /\ selectedAction[1].activities[k].type = "comment"
          /\ \E emoji \in Emojis \cup {r.emoji : r \in Range(selectedAction[1].activities[k].reactions)} :
                HandleAddReaction(selectedAction[1].activities[k].id, emoji)

\* handleToggleSubTask(subTaskId), from the checkbox of a subtask
HandleToggleSubTask(subTaskId) ==
    /\ selectedAction /= None
    /\ CanMake
    /\ LET activity == Activity(<<"act", now>>, "subtask", None, None, <<>>, <<>>)
           toggled(action) ==
               [Pushed(action, activity) EXCEPT !.subTasks = ToggleSubTasks(@, subTaskId)]
           toggledIn(action) == IF action.id /= selectedAction[1].id THEN action
                                ELSE toggled(action)
       IN  /\ actions' = MapSeq(actions, toggledIn)
           /\ selectedAction' = Some(toggled(selectedAction[1]))
    /\ UNCHANGED <<trackerData, isEditing, editForm, newSubTask, filterStatus, now>>
    /\ UNCHANGED notTrackerVars

ClickSubTask ==
    /\ selectedAction /= None
    /\ \E k \in DOMAIN selectedAction[1].subTasks :
          HandleToggleSubTask(selectedAction[1].subTasks[k].id)

\* onChange of the subtask input
SetNewSubTask ==
    /\ selectedAction /= None
    /\ Len(selectedAction[1].subTasks) > 0 \/ ~isEditing
    /\ \E v \in SubTaskTexts \ {newSubTask} : newSubTask' = v
    /\ UNCHANGED <<trackerData, actions, selectedAction, isEditing, editForm, filterStatus, now>>
    /\ UNCHANGED notTrackerVars

\* handleAddSubTask
HandleAddSubTask ==
    /\ ~IsBlank(newSubTask)
    /\ selectedAction /= None
    /\ Len(selectedAction[1].subTasks) > 0 \/ ~isEditing
    /\ CanMake
    /\ LET subTask == [id |-> <<"st", now>>, completed |-> FALSE]
           added(action) == [action EXCEPT !.subTasks = Append(@, subTask)]
           addedIn(action) == IF action.id = selectedAction[1].id THEN added(action) ELSE action
       IN  /\ actions' = MapSeq(actions, addedIn)
           /\ selectedAction' = Some(added(selectedAction[1]))
    /\ newSubTask' = <<>>
    /\ UNCHANGED <<trackerData, isEditing, editForm, filterStatus, now>>
    /\ UNCHANGED notTrackerVars

\* handleCreateAction(issue), from the button of a detected issue
HandleCreateAction ==
    /\ CanCreate
    /\ \E i \in DOMAIN detectedIssues :
          LET issue == detectedIssues[i]
              newAction ==
                  [id |-> <<"a", now>>, action |-> "", assignee |-> "",
                   dueDate |-> <<DayOf(now + DueInDays * MsPerDay)>>, status |-> "pending",
                   metrics |-> [before |-> issue.currentValue, current |-> issue.currentValue,
                                target |-> issue.targetValue],
                   subTasks |-> <<>>,
                   activities |-> <<Activity(<<"act", now>>, "created", None, None, <<>>, <<>>)>>]
          IN  /\ actions' = Append(actions, newAction)
              /\ selectedAction' = Some(newAction)
              /\ editForm' = [action |-> "", assignee |-> "", dueDate |-> newAction.dueDate]
    /\ isEditing' = TRUE
    /\ UNCHANGED <<trackerData, newSubTask, filterStatus, now>>
    /\ UNCHANGED notTrackerVars

(***************************************************************************)
(* Notification bell                                                       *)
(*                                                                         *)
(* A notification is a record [id, actionId, isRead], actionId None when   *)
(* the optional field is absent; the fields that are only displayed are    *)
(* left out.  The list is seeded with the demo feed; the model also starts *)
(* from every feed of at most MaxNotifs notifications with distinct ids.   *)
(***************************************************************************)
MaxNotifs == 3           \* length of a generated feed

DEMO_NOTIFICATIONS ==
    <<[id |-> <<"n", 1>>, actionId |-> Some("a1"), isRead |-> FALSE],
      [id |-> <<"n", 2>>, actionId |-> Some("a2"), isRead |-> FALSE],
      [id |-> <<"n", 3>>, actionId |-> Some("a3"), isRead |-> FALSE],
      [id |-> <<"n", 4>>, actionId |-> Some("a4"), isRead |-> TRUE],
      [id |-> <<"n", 5>>, actionId |-> Some("a5"), isRead |-> TRUE]>>

Feeds ==
    {DEMO_NOTIFICATIONS} \cup
    UNION {{[k \in 1..n |-> [id |-> <<"n", k>>, actionId |-> f[k][1], isRead |-> f[k][2]]] :
                f \in [1..n -> {None, Some("a1")} \X BOOLEAN]} : n \in 0..MaxNotifs}

\* notifications.filter(n => !n.isRead).length
unreadCount(list) == Cardinality({k \in DOMAIN list : ~list[k].isRead})

\* the notification with the id changes sides
MarkAsRead_toggle(prev, id) ==
    [k \in DOMAIN prev |-> IF prev[k].id = id THEN [prev[k] EXCEPT !.isRead = ~@] ELSE prev[k]]

\* the updater of handleMarkAsRead
MarkAsRead(prev, id) ==
    [k \in DOMAIN prev |-> IF prev[k].id = id THEN [prev[k] EXCEPT !.isRead = TRUE] ELSE prev[k]]

MarkAllAsRead_flip(prev) ==
    [k \in DOMAIN prev |-> [prev[k] EXCEPT !.isRead = ~prev[k].isRead]]

MarkAllAsRead_linked(prev) ==
    [k \in DOMAIN prev |-> IF prev[k].actionId /= None THEN [prev[k] EXCEPT !.isRead = TRUE] ELSE prev[k]]

\* the updater of handleMarkAllAsRead
MarkAllAsRead(prev) ==
    [k \in DOMAIN prev |-> [prev[k] EXCEPT !.isRead = TRUE]]

NotifyInit ==
    /\ notifications \in Feeds
    /\ isOpen = FALSE
    /\ navigatedTo = None
    /\ markedId = None

\* the bell button
ToggleBell ==
    /\ isOpen' = ~isOpen
    /\ UNCHANGED <<notifications, navigatedTo, markedId>>
    /\ UNCHANGED notNotifyVars

\* handleClickOutside on a mousedown outside the container
HandleClickOutside ==
    /\ isOpen' = FALSE
    /\ UNCHANGED <<notifications, navigatedTo, markedId>>
    /\ UNCHANGED notNotifyVars

\* onClose, the footer button of a non-empty dropdown
CloseDropdown ==
    /\ isOpen
    /\ Len(notifications) > 0
    /\ isOpen' = FALSE
    /\ UNCHANGED <<notifications, navigatedTo, markedId>>
    /\ UNCHANGED notNotifyVars

\* NotificationItem.handleClick on the k-th item, with handleMarkAsRead and handleNavigate
HandleClick(k) ==
    /\ isOpen
    /\ k \in DOMAIN notifications
    /\ notifications' = IF ~notifications[k].isRead
                        THEN MarkAsRead(notifications, notifications[k].id)
                        ELSE notifications
    /\ markedId' = IF ~notifications[k].isRead THEN Some(notifications[k].id) ELSE markedId
    /\ IF notifications[k].actionId /= None
       THEN /\ isOpen' = FALSE
            /\ navigatedTo' = notifications[k].actionId
       ELSE UNCHANGED <<isOpen, navigatedTo>>
    /\ UNCHANGED notNotifyVars

ClickNotification == \E k \in DOMAIN notifications : HandleClick(k)

\* the ids handleMarkAsRead is called with: those of a feed and one of no notification
NotificationIds == {<<"n", k>> : k \in 1 .. MaxNotifs + 1}

\* handleMarkAsRead(id)
HandleMarkAsRead(id) ==
    /\ notifications' = MarkAsRead(notifications, id)
    /\ markedId' = Some(id)
    /\ UNCHANGED <<isOpen, navigatedTo>>
    /\ UNCHANGED notNotifyVars

\* handleMarkAsRead called with any id
MarkRead == \E id \in NotificationIds : HandleMarkAsRead(id)

\* handleMarkAllAsRead; its button is shown while something is unread
HandleMarkAllAsRead ==
    /\ isOpen
    /\ unreadCount(notifications) > 0
    /\ notifications' = MarkAllAsRead(notifications)
    /\ UNCHANGED <<isOpen, navigatedTo, markedId>>
    /\ UNCHANGED notNotifyVars

(***************************************************************************)
(* Comment submission                                                      *)
(*                                                                         *)
(* CommentSystem shows one CommentInput for a new comment and, while a     *)
(* reply target is chosen, one for the reply.  The text of the new comment *)
(* input is content; the suggestion dropdown of the reply input only feeds *)
(* its display and is left out.                                            *)
(***************************************************************************)
MaxThread == 5           \* length of the comment list an owner keeps

maxDepth == 3

\* the comments CommentItem renders at the given depth: the forest's roots at depth 0,
\* the replies of the comments of a depth one deeper
RECURSIVE RenderedAt(_, _)
RenderedAt(built, depth) ==
    IF depth = 0 THEN Range(built.topLevel)
    ELSE UNION {Range(built.replies[p]) : p \in RenderedAt(built, depth - 1)}

\* the reply button is on every comment on screen
ReplyTargets_anyDepth ==
    LET built == attach(comments, Len(comments))
    IN  UNION {RenderedAt(built, depth) : depth \in 0 .. Len(comments)}

\* ids of the comments on screen that offer a reply button: depth < maxDepth
ReplyTargets ==
    LET built == attach(comments, Len(comments))
    IN  UNION {RenderedAt(built, depth) : depth \in 0 .. maxDepth - 1}

\* the comments prop after onAddComment / onAddReply: an owner that keeps the list
\* gives the comment the next id and a timestamp and appends it
OnAdd(cs, comment) ==
    IF ownerAppends THEN Append(cs, [parentId |-> comment.parentId, createdAt |-> 1])
    ELSE cs

\* the other fields of the thread builder, which a submission leaves alone
builderVars == <<inputReplies, byId, topLevel, stack, pcTree, commentTree>>
notCommentsVars == <<classifyVars, pipelineVars, trackerVars, notifyVars, ytdVars, builderVars>>

\* mentions.forEach(userId => { if (onMentionUser) onMentionUser(userId, commentId) })
NotifyMentioned_firstOnly(mentions, commentId) ==
    IF onMentionUser /\ mentions /= <<>>
    THEN <<[userId |-> mentions[1], commentId |-> commentId]>>
    ELSE <<>>

NotifyMentioned(mentions, commentId) ==
    IF onMentionUser
    THEN [k \in DOMAIN mentions |-> [userId |-> mentions[k], commentId |-> commentId]]
    ELSE <<>>

ThreadInit ==
    /\ mounted = "CommentSystem"
    /\ typed \in Texts
    /\ content = <<>>
    /\ showMentionSuggest = FALSE
    /\ submittedMentions = None
    /\ newComment = <<>>
    /\ showMentionList = FALSE
    /\ activityMentions = None
    /\ replyingTo = None
    /\ replyContent = <<>>
    /\ onMentionUser \in BOOLEAN
    /\ ownerAppends = FALSE
    /\ addedComment = None
    /\ mentionCalls = None

\* CommentInput.handleChange of the new comment input
ChangeComment ==
    /\ mounted = "CommentSystem"
    /\ content' = typed
    /\ showMentionSuggest' = OpenMention(typed)
    /\ UNCHANGED <<mounted, typed, submittedMentions, newComment, showMentionList, activityMentions>>
    /\ UNCHANGED threadVars
    /\ UNCHANGED notThreadVars

\* CommentInput.handleChange of the reply input
ChangeReply ==
    /\ mounted = "CommentSystem"
    /\ replyingTo /= None
    /\ replyContent' = typed
    /\ UNCHANGED <<replyingTo, onMentionUser, ownerAppends, addedComment, mentionCalls>>
    /\ UNCHANGED mentionVars
    /\ UNCHANGED notThreadVars

\* onReply: the reply button of a comment; another target mounts a fresh reply input
ClickReply ==
    /\ mounted = "CommentSystem"
    /\ \E id \in ReplyTargets :
        /\ replyingTo' = Some(id)
        /\ replyContent' = IF replyingTo = Some(id) THEN replyContent ELSE <<>>
    /\ UNCHANGED <<onMentionUser, ownerAppends, addedComment, mentionCalls>>
    /\ UNCHANGED mentionVars
    /\ UNCHANGED notThreadVars

\* onCancelReply
CancelReply ==
    /\ mounted = "CommentSystem"
    /\ replyingTo /= None
    /\ replyingTo' = None
    /\ replyContent' = <<>>
    /\ UNCHANGED <<onMentionUser, ownerAppends, addedComment, mentionCalls>>
    /\ UNCHANGED mentionVars
    /\ UNCHANGED notThreadVars

\* CommentInput.handleSubmit of the new comment input with handleSubmitComment
HandleSubmitComment ==
    /\ mounted = "CommentSystem"
    /\ ~IsBlank(content)
    /\ \E matches \in {MatchAll(content, 1)} :
        \E mentions \in {ExtractMentions(matches, Len(matches))} :
            /\ submittedMentions' = Some(mentions)
            /\ addedComment' = Some([parentId |-> None, mentions |-> mentions])
            /\ mentionCalls' = Some(NotifyMentioned(mentions, "new"))
    /\ ownerAppends => Len(comments) < MaxThread
    /\ comments' = OnAdd(comments, addedComment'[1])
    /\ content' = <<>>
    /\ UNCHANGED <<mounted, typed, showMentionSuggest, newComment, showMentionList, activityMentions>>
    /\ UNCHANGED <<replyingTo, replyContent, onMentionUser, ownerAppends>>
    /\ UNCHANGED notCommentsVars

\* CommentInput.handleSubmit of the reply input with handleSubmitReply
HandleSubmitReply ==
    /\ mounted = "CommentSystem"
    /\ ~IsBlank(replyContent)
    /\ replyingTo /= None
    /\ \E matches \in {MatchAll(replyContent, 1)} :
        \E mentions \in {ExtractMentions(matches, Len(matches))} :
            /\ submittedMentions' = Some(mentions)
            /\ addedComment' = Some([parentId |-> replyingTo, mentions |-> mentions])
            /\ mentionCalls' = Some(NotifyMentioned(mentions, "reply"))
    /\ ownerAppends => Len(comments) < MaxThread
    /\ comments' = OnAdd(comments, addedComment'[1])
    /\ replyingTo' = None
    /\ replyContent' = <<>>
    /\ UNCHANGED <<mounted, typed, content, showMentionSuggest, newComment, showMentionList, activityMentions>>
    /\ UNCHANGED <<onMentionUser, ownerAppends>>
    /\ UNCHANGED notCommentsVars

(***************************************************************************)
(* Year-to-date aggregation                                                *)
(*                                                                         *)
(* generateTimeSeriesData works in units of 1/30000 of 100 million yen, in *)
(* which the monthly budget 200/12 * seasonFactor and the actual,          *)
(* budget * (0.92 + Math.random() * 0.12), are integers for a random       *)
(* factor of whole 25ths; profits are in 200ths of that unit.  The         *)
(* variances, the prior year and the branch series take no part in the     *)
(* year-to-date sums and are left out.  The series is generated once.      *)
(*                                                                         *)
(* The dashboard reads its dataset, its KPI definitions, calculateYTD and  *)
(* calculateForecast from lib/monthlyData, which is described by the       *)
(* specification only: a month record is the KpiValue [isClosed, actual,   *)
(* budget, varianceRate] of one KPI, actual and varianceRate None iff the  *)
(* month is open, and months close in calendar order.  The variance rates  *)
(* of the aggregates, derived from their sums, are left out.  A rate is in *)
(* units of 1/RateUnit percent; a month-over-month rate is the fraction    *)
(* [num, den] of its percentage.                                           *)
(***************************************************************************)
MaxMonths == 3           \* months of a dashboard dataset

AnnualBudget == 200
ActualMonths == 6
AvgMargin == 29          \* 0.145 in 200ths
FactorUnit == 25         \* a random factor of 1 in 25ths
CurrentMonth == 6        \* '2025-09' in months

\* seasonality factors in percent, April to March
SEASONALITY == <<85, 90, 95, 92, 88, 100, 105, 110, 115, 108, 105, 120>>

\* the factors 0.92 + Math.random() * 0.12 is drawn from, in 25ths
RandomFactors == {23, 25}

\* the factor 0.95 + Math.random() * 0.08 of a forecast month, in 25ths
ForecastFactors == {24}

\* the months.forEach of generateTimeSeriesData over the first n months; rnd[n] is the
\* random factor drawn for month n
RECURSIVE ForEachMonth_budgetAllMonths(_, _)
ForEachMonth_budgetAllMonths(rnd, n) ==
    IF n = 0
    THEN [companyRevenue |-> <<>>, ytdActualRevenue |-> 0, ytdBudgetRevenue |-> 0,
          ytdActualProfit |-> 0, ytdBudgetProfit |-> 0]
    ELSE LET acc == ForEachMonth_budgetAllMonths(rnd, n - 1)
             idx == n - 1
             budget == AnnualBudget * SEASONALITY[n] * FactorUnit
             isActual == idx < ActualMonths
             actual == IF isActual THEN Some(AnnualBudget * SEASONALITY[n] * rnd[n]) ELSE None
             forecast == IF isActual THEN actual[1] ELSE AnnualBudget * SEASONALITY[n] * rnd[n]
         IN  [companyRevenue |->
                  Append(acc.companyRevenue,
                         [period |-> n, budget |-> budget, forecast |-> forecast,
                          actual |-> actual]),
              ytdActualRevenue |->
                  IF isActual THEN acc.ytdActualRevenue + actual[1] ELSE acc.ytdActualRevenue,
              ytdActualProfit |->
                  IF isActual THEN acc.ytdActualProfit + actual[1] * AvgMargin
                  ELSE acc.ytdActualProfit,
              ytdBudgetRevenue |-> acc.ytdBudgetRevenue + budget,
              ytdBudgetProfit |-> acc.ytdBudgetProfit + budget * AvgMargin]

RECURSIVE ForEachMonth_forecastBudget(_, _)
ForEachMonth_forecastBudget(rnd, n) ==
    IF n = 0
    THEN [companyRevenue |-> <<>>, ytdActualRevenue |-> 0, ytdBudgetRevenue |-> 0,
          ytdActualProfit |-> 0, ytdBudgetProfit |-> 0]
    ELSE LET acc == ForEachMonth_forecastBudget(rnd, n - 1)
             idx == n - 1
             budget == AnnualBudget * SEASONALITY[n] * FactorUnit
             isActual == idx < ActualMonths
             actual == IF isActual THEN Some(AnnualBudget * SEASONALITY[n] * rnd[n]) ELSE None
             forecast == IF isActual THEN budget ELSE AnnualBudget * SEASONALITY[n] * rnd[n]
         IN  [companyRevenue |->
                  Append(acc.companyRevenue,
                         [period |-> n, budget |-> budget, forecast |-> forecast,
                          actual |-> actual]),
              ytdActualRevenue |->
                  IF isActual THEN acc.ytdActualRevenue + actual[1] ELSE acc.ytdActualRevenue,
              ytdActualProfit |->
                  IF isActual THEN acc.ytdActualProfit + actual[1] * AvgMargin
                  ELSE acc.ytdActualProfit,
              ytdBudgetRevenue |->
                  IF idx < ActualMonths THEN acc.ytdBudgetRevenue + budget
                  ELSE acc.ytdBudgetRevenue,
              ytdBudgetProfit |->
                  IF idx < ActualMonths THEN acc.ytdBudgetProfit + budget * AvgMargin
                  ELSE acc.ytdBudgetProfit]

RECURSIVE ForEachMonth(_, _)
ForEachMonth(rnd, n) ==
    IF n = 0
    THEN [companyRevenue |-> <<>>, ytdActualRevenue |-> 0, ytdBudgetRevenue |-> 0,
          ytdActualProfit |-> 0, ytdBudgetProfit |-> 0]
    ELSE LET acc == ForEachMonth(rnd, n - 1)
             idx == n - 1
             budget == AnnualBudget * SEASONALITY[n] * FactorUnit
             isActual == idx < ActualMonths
             actual == IF isActual THEN Some(AnnualBudget * SEASONALITY[n] * rnd[n]) ELSE None
             forecast == IF isActual THEN actual[1] ELSE AnnualBudget * SEASONALITY[n] * rnd[n]
         IN  [companyRevenue |->
                  Append(acc.companyRevenue,
                         [period |-> n, budget |-> budget, forecast |-> forecast,
                          actual |-> actual]),
              ytdActualRevenue |->
                  IF isActual THEN acc.ytdActualRevenue + actual[1] ELSE acc.ytdActualRevenue,
              ytdActualProfit |->
                  IF isActual THEN acc.ytdActualProfit + actual[1] * AvgMargin
                  ELSE acc.ytdActualProfit,
              ytdBudgetRevenue |->
                  IF idx < ActualMonths THEN acc.ytdBudgetRevenue + budget
                  ELSE acc.ytdBudgetRevenue,
              ytdBudgetProfit |->
                  IF idx < ActualMonths THEN acc.ytdBudgetProfit + budget * AvgMargin
                  ELSE acc.ytdBudgetProfit]

\* generateTimeSeriesData: the company series and the summary's year-to-date figures
GenerateTimeSeriesData ==
    /\ timeSeries = None
    /\ \E ra \in [1..ActualMonths -> RandomFactors],
          rf \in [(ActualMonths + 1)..Len(SEASONALITY) -> ForecastFactors] :
        \E done \in {ForEachMonth([k \in DOMAIN SEASONALITY |->
                                      IF k <= ActualMonths THEN ra[k] ELSE rf[k]],
                                  Len(SEASONALITY))} :
            timeSeries' = Some([currentMonth |-> CurrentMonth,
                                companyRevenue |-> done.companyRevenue,
                                ytd |-> [budget |-> done.ytdBudgetRevenue,
                                         actual |-> done.ytdActualRevenue],
                                ytdProfit |-> [budget |-> done.ytdBudgetProfit,
                                               actual |-> done.ytdActualProfit]])
    /\ UNCHANGED <<monthlyDataset, selectedMonth, ytdData, forecastData, kpiDefinitions, rendered>>
    /\ UNCHANGED notYtdVars

\* varianceRate = (actual - budget) / budget * 100; exact for the values below
VarianceRate(actual, budget) == ((actual - budget) * 100 * RateUnit) \div budget

\* the values of a month record
MonthRecords ==
    {[isClosed |-> TRUE, actual |-> Some(a), budget |-> b,
      varianceRate |-> Some(VarianceRate(a, b))] : a \in {0, 3, 5}, b \in {4, 5}}
        \cup {[isClosed |-> FALSE, actual |-> None, budget |-> b, varianceRate |-> None] :
                  b \in {4, 5}}

\* the datasets of at most MaxMonths months whose closed months come first
Datasets ==
    {d \in UNION {[1..n -> MonthRecords] : n \in 1..MaxMonths} :
        \A k \in DOMAIN d : k > 1 /\ d[k].isClosed => d[k - 1].isClosed}

\* calculateYTD over the first n months, in month order
RECURSIVE SumClosed(_, _)
SumClosed(dataset, n) ==
    IF n = 0 THEN [actual |-> None, budget |-> 0]
    ELSE LET acc == SumClosed(dataset, n - 1)
         IN  IF dataset[n].isClosed
             THEN [actual |-> Some((IF acc.actual = None THEN 0 ELSE acc.actual[1])
                                       + dataset[n].actual[1]),
                   budget |-> acc.budget + dataset[n].budget]
             ELSE acc

calculateYTD(dataset, uptoMonth) == SumClosed(dataset, uptoMonth)

\* getCurrentClosedMonth: the last closed month, the first month when none is closed
getCurrentClosedMonth(dataset) ==
    LET closed == {k \in DOMAIN dataset : dataset[k].isClosed}
    IN  IF closed = {} THEN 1 ELSE CHOOSE k \in closed : \A j \in closed : j <= k

\* calculateForecast over the first n months: the actual of a closed month, the budget
\* of an open one
RECURSIVE Landing(_, _)
Landing(dataset, n) ==
    IF n = 0 THEN 0
    ELSE Landing(dataset, n - 1)
             + (IF dataset[n].isClosed THEN dataset[n].actual[1] ELSE dataset[n].budget)

calculateForecast(dataset, asOfMonth) == [forecast |-> Landing(dataset, Len(dataset))]

\* monthlyDataset.find(d => d.month === month) || null, None also for no month (undefined)
FindMonth(dataset, month) == IF month \in DOMAIN dataset THEN Some(dataset[month]) ELSE None

\* momChange of a table row: curr and prev are the KPI values of the two months or None
momChange(curr, prev) ==
    IF curr /= None /\ prev /= None /\ curr[1].actual /= None /\ prev[1].actual /= None
    THEN Some(curr[1].actual[1] - prev[1].actual[1])
    ELSE None

momRate_zeroPrev(curr, prev) ==
    IF momChange(curr, prev) /= None /\ prev /= None
    THEN Some([num |-> momChange(curr, prev)[1] * 100, den |-> prev[1].actual[1]])
    ELSE None

\* momRate of a table row; a previous actual of 0 is falsy
momRate(curr, prev) ==
    IF momChange(curr, prev) /= None /\ prev /= None /\ prev[1].actual /= None
           /\ prev[1].actual[1] /= 0
    THEN Some([num |-> momChange(curr, prev)[1] * 100, den |-> prev[1].actual[1]])
    ELSE None

\* the kpiDefinitions.forEach of the summary over the first n KPIs
RECURSIVE CountStatus(_, _, _, _)
CountStatus(defs, curr, level, n) ==
    IF n = 0 THEN 0
    ELSE CountStatus(defs, curr, level, n - 1)
             + (IF curr /= None /\ curr[1].varianceRate /= None
                      /\ getKPIStatus(curr[1].varianceRate, defs[n].isHigherBetter) = level
                THEN 1 ELSE 0)

\* a render of the dashboard for the selected month: currentData, previousData, the
\* summary counts and the month-over-month cells of the table row
RenderRow(dataset, defs, month) ==
    LET currentData == FindMonth(dataset, month)
        previousData == FindMonth(dataset, month - 1)
    IN  [goodCount |-> CountStatus(defs, currentData, "good", Len(defs)),
         criticalCount |-> CountStatus(defs, currentData, "critical", Len(defs)),
         momChange |-> momChange(currentData, previousData),
         momRate |-> momRate(currentData, previousData)]

DashboardInit ==
    /\ timeSeries = None
    /\ monthlyDataset \in Datasets
    /\ kpiDefinitions \in {<<[id |-> "revenue", isHigherBetter |-> b]>> : b \in BOOLEAN}
    /\ selectedMonth = getCurrentClosedMonth(monthlyDataset)
    /\ ytdData = calculateYTD(monthlyDataset, selectedMonth)
    /\ forecastData = calculateForecast(monthlyDataset, selectedMonth)
    /\ rendered = RenderRow(monthlyDataset, kpiDefinitions, selectedMonth)

\* the dashboard with revenue, a KPI for which higher is better, in a year whose closed
\* months all booked revenue
YtdInit ==
    /\ DashboardInit
    /\ kpiDefinitions[1].isHigherBetter
    /\ \A k \in DOMAIN monthlyDataset : monthlyDataset[k].actual /= Some(0)

\* a button of the month bar, with the render that follows: the memos and the table
SetSelectedMonth ==
    /\ \E m \in DOMAIN monthlyDataset :
        /\ selectedMonth' = m
        /\ ytdData' = calculateYTD(monthlyDataset, m)
        /\ forecastData' = calculateForecast(monthlyDataset, m)
        /\ rendered' = RenderRow(monthlyDataset, kpiDefinitions, m)
    /\ UNCHANGED <<timeSeries, monthlyDataset, kpiDefinitions>>
    /\ UNCHANGED notYtdVars

(***************************************************************************)
(* Specifications                                                          *)
(***************************************************************************)
ClassifyIdle ==
    /\ rate = None
    /\ isHigherBetter = TRUE
    /\ color = None
    /\ status = None

PipelineIdle ==
    /\ pipelineStages = <<>>
    /\ pipelineData = <<>>
    /\ summary = None
    /\ threw = FALSE
    /\ weightedTotal = None
    /\ grossTotal = None
    /\ lookupStage = None
    /\ stageConfig = None

ClassifyNext ==
    \/ VarColor
    \/ GetKPIStatus

PipelineNext ==
    \/ CalculatePipelineSummary
    \/ GetWeightedTotal
    \/ GetGrossTotal
    \/ GetStageConfig

TreeIdle ==
    /\ comments = <<>>
    /\ inputReplies = <<>>
    /\ byId = <<>>
    /\ topLevel = <<>>
    /\ stack = <<>>
    /\ pcTree = "unmounted"
    /\ commentTree = None

TreeNext ==
    \/ Render
    \/ BuildTree
    \/ SortRepliesStep

MentionIdle ==
    /\ mounted = "none"
    /\ typed = <<>>
    /\ content = <<>>
    /\ showMentionSuggest = FALSE
    /\ submittedMentions = None
    /\ newComment = <<>>
    /\ showMentionList = FALSE
    /\ activityMentions = None

TrackerIdle ==
    /\ trackerData = [marginWarning |-> 0, margins |-> <<>>]
    /\ actions = <<>>
    /\ selectedAction = None
    /\ isEditing = FALSE
    /\ editForm = [action |-> "", assignee |-> "", dueDate |-> <<>>]
    /\ newSubTask = <<>>
    /\ filterStatus = "all"
    /\ now = 0

NotifyIdle ==
    /\ notifications = <<>>
    /\ isOpen = FALSE
    /\ navigatedTo = None
    /\ markedId = None

ThreadIdle ==
    /\ replyingTo = None
    /\ replyContent = <<>>
    /\ onMentionUser = FALSE
    /\ ownerAppends = FALSE
    /\ addedComment = None
    /\ mentionCalls = None

YtdIdle ==
    /\ timeSeries = None
    /\ monthlyDataset = <<>>
    /\ selectedMonth = 0
    /\ ytdData = [actual |-> None, budget |-> 0]
    /\ forecastData = [forecast |-> 0]
    /\ kpiDefinitions = <<>>
    /\ rendered = [goodCount |-> 0, criticalCount |-> 0, momChange |-> None, momRate |-> None]

YtdNext ==
    \/ GenerateTimeSeriesData
    \/ SetSelectedMonth

DashboardNext == SetSelectedMonth

NotifyNext ==
    \/ ToggleBell
    \/ HandleClickOutside
    \/ CloseDropdown
    \/ ClickNotification
    \/ HandleMarkAllAsRead

MarkReadNext ==
    \/ ToggleBell
    \/ ClickNotification
    \/ MarkRead

ThreadNext ==
    \/ ChangeComment
    \/ ChangeReply
    \/ ClickReply
    \/ CancelReply
    \/ HandleSubmitComment
    \/ HandleSubmitReply

\* the tracker with the comment box of a selected action on screen
TrackerOpen ==
    /\ trackerData \in TrackerDatas
    /\ actions = <<SeedAction("pending", <<>>)>>
    /\ selectedAction = Some(actions[1])
    /\ isEditing = FALSE
    /\ editForm = FormOf(actions[1])
    /\ newSubTask = <<>>
    /\ filterStatus = "all"
    /\ now = 0

\* the tracker mounted: the comment box takes one of the tracker's texts
TrackerMounted ==
    /\ mounted = "ActionTracker"
    /\ typed \in TrackerTexts
    /\ content = <<>>
    /\ showMentionSuggest = FALSE
    /\ submittedMentions = None
    /\ newComment = <<>>
    /\ showMentionList = FALSE
    /\ activityMentions = None

\* the tracker with a seeded comment of any well-formed reactions array
ReactionInit ==
    /\ trackerData \in TrackerDatas
    /\ actions \in {<<SeedAction("pending", r)>> : r \in SeedReactions}
    /\ selectedAction = None
    /\ isEditing = FALSE
    /\ editForm = [action |-> "", assignee |-> "", dueDate |-> <<>>]
    /\ newSubTask = <<>>
    /\ filterStatus = "all"
    /\ now = 0

ReactionNext ==
    \/ Tick
    \/ SelectAction
    \/ HandleCommentChange
    \/ HandleAddComment
    \/ ClickReaction

\* the handlers that decide the status of an action, with the list unfiltered
StatusNext ==
    \/ Tick
    \/ SelectAction
    \/ ClickStatus
    \/ HandleCreateAction

TrackerNext ==
    \/ Tick
    \/ SetFilterStatus
    \/ SelectAction
    \/ ToggleEditing
    \/ SetEditForm
    \/ CancelEdit
    \/ HandleSaveEdit
    \/ ClickStatus
    \/ ClickReaction
    \/ ClickSubTask
    \/ SetNewSubTask
    \/ HandleAddSubTask
    \/ HandleCreateAction
    \/ HandleCommentChange
    \/ HandleAddComment

\* the handlers that edit an action without the status buttons' say: comments, the
\* edit form and subtasks, next to the status buttons
EditNext ==
    \/ Tick
    \/ SelectAction
    \/ ToggleEditing
    \/ SetEditForm
    \/ CancelEdit
    \/ HandleSaveEdit
    \/ ClickStatus
    \/ ClickSubTask
    \/ SetNewSubTask
    \/ HandleAddSubTask
    \/ HandleCommentChange
    \/ HandleAddComment

\* the handlers that write both the list and the selected copy, with the ones that
\* select an action and fill the edit form
SyncNext ==
    \/ Tick
    \/ SelectAction
    \/ SetEditForm
    \/ HandleSaveEdit
    \/ ClickStatus
    \/ ClickReaction
    \/ ClickSubTask
    \/ HandleCreateAction

MentionNext ==
    \/ HandleChange
    \/ HandleSubmit
    \/ HandleCommentChange
    \/ HandleAddComment

InitClassify ==
    ClassifyInit /\ PipelineIdle /\ TreeIdle /\ MentionIdle /\ TrackerIdle /\ NotifyIdle /\ ThreadIdle /\ YtdIdle
InitPipeline ==
    PipelineInit /\ ClassifyIdle /\ TreeIdle /\ MentionIdle /\ TrackerIdle /\ NotifyIdle /\ ThreadIdle /\ YtdIdle
InitTree ==
    TreeInit /\ ClassifyIdle /\ PipelineIdle /\ MentionIdle /\ TrackerIdle /\ NotifyIdle /\ ThreadIdle /\ YtdIdle
InitMention ==
    /\ MentionInit
    /\ ClassifyIdle /\ PipelineIdle /\ TreeIdle /\ NotifyIdle /\ ThreadIdle /\ YtdIdle
    /\ IF mounted = "ActionTracker" THEN TrackerOpen ELSE TrackerIdle
InitTracker ==
    TrackerInit /\ TrackerMounted /\ ClassifyIdle /\ PipelineIdle /\ TreeIdle /\ NotifyIdle /\ ThreadIdle /\ YtdIdle
InitReaction ==
    ReactionInit /\ TrackerMounted /\ ClassifyIdle /\ PipelineIdle /\ TreeIdle /\ NotifyIdle /\ ThreadIdle /\ YtdIdle
InitNotify ==
    NotifyInit /\ ClassifyIdle /\ PipelineIdle /\ TreeIdle /\ MentionIdle /\ TrackerIdle /\ ThreadIdle /\ YtdIdle
\* the thread builder before its memo runs, with the given comments prop
TreeProp(cs) ==
    /\ comments = cs
    /\ inputReplies = [id \in DOMAIN cs |-> None]
    /\ byId = <<>>
    /\ topLevel = <<>>
    /\ stack = <<>>
    /\ pcTree = "unmounted"
    /\ commentTree = None

\* one top-level comment on screen
InitThread ==
    /\ ThreadInit
    /\ TreeProp(<<[parentId |-> None, createdAt |-> 1]>>)
    /\ ClassifyIdle /\ PipelineIdle /\ TrackerIdle /\ NotifyIdle /\ YtdIdle

\* the comment lists a thread starts from: at most two comments, whose parent
\* references may dangle, point at the comment itself or form a cycle.  A dangling
\* reference is to id 0, the id of no comment: the owner gives a new comment an id
\* that the list does not mention.
StartLists ==
    UNION {[1 .. n -> [parentId : {None, Some(0), Some(1), Some(2)}, createdAt : {1}]] :
              n \in 0 .. 2}

\* a thread whose owner keeps the comments handed to onAddComment and onAddReply
InitReply ==
    /\ mounted = "CommentSystem"
    /\ typed = <<"a">>
    /\ content = <<>>
    /\ showMentionSuggest = FALSE
    /\ submittedMentions = None
    /\ newComment = <<>>
    /\ showMentionList = FALSE
    /\ activityMentions = None
    /\ replyingTo = None
    /\ replyContent = <<>>
    /\ onMentionUser = FALSE
    /\ ownerAppends = TRUE
    /\ addedComment = None
    /\ mentionCalls = None
    /\ \E cs \in StartLists : TreeProp(cs)
    /\ ClassifyIdle /\ PipelineIdle /\ TrackerIdle /\ NotifyIdle /\ YtdIdle
InitYtd ==
    /\ YtdInit
    /\ ClassifyIdle /\ PipelineIdle /\ TreeIdle /\ MentionIdle /\ TrackerIdle /\ NotifyIdle /\ ThreadIdle
InitDashboard ==
    /\ DashboardInit
    /\ ClassifyIdle /\ PipelineIdle /\ TreeIdle /\ MentionIdle /\ TrackerIdle /\ NotifyIdle /\ ThreadIdle

SpecClassify == InitClassify /\ [][ClassifyNext]_vars
SpecPipeline == InitPipeline /\ [][PipelineNext]_vars
SpecTree == InitTree /\ [][TreeNext]_vars
SpecMention == InitMention /\ [][MentionNext]_vars
SpecTracker == InitTracker /\ [][TrackerNext]_vars
SpecReaction == InitReaction /\ [][ReactionNext]_vars
SpecStatus == InitTracker /\ [][StatusNext]_vars
SpecEdit == InitTracker /\ [][EditNext]_vars
SpecSync == InitTracker /\ [][SyncNext]_vars
SpecNotify == InitNotify /\ [][NotifyNext]_vars
SpecMarkRead == InitNotify /\ [][MarkReadNext]_vars
SpecThread == InitThread /\ [][ThreadNext]_vars
SpecReply == InitReply /\ [][ThreadNext]_vars
SpecYtd == InitYtd /\ [][YtdNext]_vars
SpecDashboard == InitDashboard /\ [][DashboardNext]_vars
\* the build runs to completion once started: no step of it waits for anything
FairSpecTree == SpecTree /\ WF_vars(BuildTree) /\ WF_vars(SortRepliesStep) /\ WF_vars(Render)

(***************************************************************************)
(* Properties of the status classifier                                     *)
(***************************************************************************)
Effective == IF isHigherBetter THEN rate[1] ELSE 0 - rate[1]
ShownStatus == StatusOfColor(color[1])

\* C1: a null rate is pending; otherwise, with effective = rate for a
\* higher-is-better KPI and -rate for a lower-is-better one, effective >= 0
\* is good, -5 <= effective < 0 is warning (-5 itself included) and
\* effective < -5 is critical; (true,+3) good, (true,-3) warning,
\* (true,-8) critical, (false,+8) critical.
C1_StatusClassification ==
    color /= None =>
        /\ rate = None => ShownStatus = "pending"
        /\ rate /= None =>
            /\ Effective >= 0 => ShownStatus = "good"
            /\ (Effective < 0 /\ Effective >= 0 - 5 * RateUnit) => ShownStatus = "warning"
            /\ Effective < 0 - 5 * RateUnit => ShownStatus = "critical"
        /\ (rate = Some(3 * RateUnit) /\ isHigherBetter) => ShownStatus = "good"
        /\ (rate = Some(0 - 3 * RateUnit) /\ isHigherBetter) => ShownStatus = "warning"
        /\ (rate = Some(0 - 8 * RateUnit) /\ isHigherBetter) => ShownStatus = "critical"
        /\ (rate = Some(8 * RateUnit) /\ ~isHigherBetter) => ShownStatus = "critical"

\* the boundary: a higher-is-better KPI exactly 5 points under plan was classified
C1_Witness ==
    /\ color /= None
    /\ rate = Some(0 - 5 * RateUnit)
    /\ isHigherBetter
    /\ ShownStatus = "warning"

(***************************************************************************)
(* Properties of the pipeline rollup                                       *)
(***************************************************************************)
ConfiguredIds == {pipelineStages[k].id : k \in DOMAIN pipelineStages}
ItemsOf(id) == {i \in DOMAIN pipelineData : pipelineData[i].stage = id}

RECURSIVE AmountOver(_)
AmountOver(S) ==
    IF S = {} THEN 0
    ELSE LET i == CHOOSE j \in S : TRUE
         IN  pipelineData[i].amount + AmountOver(S \ {i})

\* C2: the summary has exactly one entry per configured stage, in the declared
\* order of the stage list whatever the order of the items, and a stage
\* without items has count = 0, totalAmount = 0 and weightedAmount = 0.
C2_OneEntryPerStageInOrder ==
    summary /= None =>
        /\ Len(summary[1]) = Len(pipelineStages)
        /\ \A k \in DOMAIN pipelineStages :
            /\ summary[1][k].stage = pipelineStages[k].id
            /\ ItemsOf(pipelineStages[k].id) = {} =>
                /\ summary[1][k].count = 0
                /\ summary[1][k].totalAmount = 0
                /\ summary[1][k].weightedAmount = 0

\* stages A, B declared in that order, every item in B: A comes first, empty
C2_Witness ==
    /\ summary /= None
    /\ Len(pipelineStages) = 2
    /\ pipelineStages[1].id = "A"
    /\ pipelineStages[2].id = "B"
    /\ Len(pipelineData) = 2
    /\ \A i \in DOMAIN pipelineData : pipelineData[i].stage = "B"
    /\ summary[1][1].count = 0
    /\ summary[1][2].count = 2

ExampleStages == <<[id |-> "A", probability |-> 80], [id |-> "B", probability |-> 50]>>
ExampleData == <<[amount |-> 10 * Percent, stage |-> "A"],
                 [amount |-> 20 * Percent, stage |-> "B"]>>

RECURSIVE WeightedOver(_)
WeightedOver(K) ==
    IF K = {} THEN 0
    ELSE LET k == CHOOSE j \in K : TRUE
         IN  summary[1][k].weightedAmount + WeightedOver(K \ {k})

RECURSIVE TotalOver(_)
TotalOver(K) ==
    IF K = {} THEN 0
    ELSE LET k == CHOOSE j \in K : TRUE
         IN  summary[1][k].totalAmount + TotalOver(K \ {k})

\* C3: per stage, count is the number of items of the stage, totalAmount the
\* sum of their amounts and weightedAmount = totalAmount * probability / 100;
\* the weighted total is the sum of weightedAmount and the gross total the sum
\* of totalAmount over the stage summaries; A(80%), B(50%) with 10 in A and
\* 20 in B give 18 and 30.
C3_SummaryArithmetic ==
    /\ summary /= None =>
        \A k \in DOMAIN pipelineStages :
            /\ summary[1][k].count = Cardinality(ItemsOf(pipelineStages[k].id))
            /\ summary[1][k].totalAmount = AmountOver(ItemsOf(pipelineStages[k].id))
            /\ summary[1][k].weightedAmount * Percent =
                   summary[1][k].totalAmount * pipelineStages[k].probability
    /\ (summary /= None /\ weightedTotal /= None) =>
            weightedTotal[1] = WeightedOver(DOMAIN summary[1])
    /\ (summary /= None /\ grossTotal /= None) =>
            grossTotal[1] = TotalOver(DOMAIN summary[1])
    /\ (pipelineStages = ExampleStages /\ pipelineData = ExampleData) =>
        /\ weightedTotal /= None => weightedTotal[1] = 18 * Percent
        /\ grossTotal /= None => grossTotal[1] = 30 * Percent

C3_Witness ==
    /\ pipelineStages = ExampleStages
    /\ pipelineData = ExampleData
    /\ summary /= None
    /\ weightedTotal = Some(18 * Percent)
    /\ grossTotal = Some(30 * Percent)

C5_FailFastOnUnknownStage ==
    /\ (summary /= None /\ \E i \in DOMAIN pipelineData :
                                pipelineData[i].stage \notin ConfiguredIds) => threw
    /\ (lookupStage /= None /\ lookupStage[1] \notin ConfiguredIds) => stageConfig /= None

(***************************************************************************)
(* Properties of the comment thread builder                                *)
(***************************************************************************)
Roots == Range(commentTree[1])
InReplies(id) == {p \in DOMAIN byId : id \in Range(byId[p])}

\* the nodes of the returned forest: the roots and everything below them
RECURSIVE Below(_, _)
Below(frontier, seen) ==
    IF frontier = {} THEN seen
    ELSE LET children == UNION {Range(byId[p]) : p \in frontier}
         IN  Below(children \ (seen \cup frontier), seen \cup frontier)

InForest == Below(Roots, {})

\* the arrays of the returned forest: the root array and the replies of its nodes
ForestArrays == {commentTree[1]} \cup {byId[p] : p \in InForest}

Occurrences(arr, id) == Cardinality({k \in DOMAIN arr : arr[k] = id})

\* C6: a comment whose parentId is non-null and matches no comment of the list
\* becomes a top-level root, is under no other comment, and the build does not
\* throw; a comment whose parentId matches a comment of the list is appended
\* to that parent's replies and is not a root.
C6_OrphansBecomeRoots ==
    /\ pcTree /= "overflow"
    /\ pcTree = "done" =>
        \A i \in DOMAIN comments :
            /\ (comments[i].parentId /= None /\ comments[i].parentId[1] \notin DOMAIN comments) =>
                /\ Occurrences(commentTree[1], i) = 1
                /\ InReplies(i) = {}
            /\ (comments[i].parentId /= None /\ comments[i].parentId[1] \in DOMAIN comments) =>
                /\ Occurrences(byId[comments[i].parentId[1]], i) = 1
                /\ InReplies(i) = {comments[i].parentId[1]}
                /\ i \notin Roots

\* a dangling comment and a proper reply in the same finished build
C6_Witness ==
    /\ pcTree = "done"
    /\ \E i, j \in DOMAIN comments :
        /\ comments[i].parentId /= None
        /\ comments[i].parentId[1] \notin DOMAIN comments
        /\ i \in Roots
        /\ comments[j].parentId /= None
        /\ comments[j].parentId[1] \in Roots
        /\ j \in Range(byId[comments[j].parentId[1]])

Ascending(arr) ==
    \A p, q \in DOMAIN arr : p < q => comments[arr[p]].createdAt <= comments[arr[q]].createdAt

\* C7: in the returned forest the root array and every replies array at every
\* depth are in ascending createdAt order; for the input 1(t10), 2(parent 1,
\* t20), 3(parent 1, t5), 4(parent 99, t1) the roots are [4,1] and the replies
\* of 1 are [3,2].
C7_SortedAtEveryDepth ==
    pcTree = "done" =>
        /\ \A arr \in ForestArrays : Ascending(arr)
        /\ comments = ExampleComments =>
            /\ commentTree[1] = <<4, 1>>
            /\ byId[1] = <<3, 2>>

C7_Witness ==
    /\ pcTree = "done"
    /\ comments = ExampleComments
    /\ commentTree = Some(<<4, 1>>)
    /\ byId[1] = <<3, 2>>

\* C8: the sort is stable: siblings (or roots) with equal createdAt keep the
\* relative order they have in the flat input list.
C8_StableSort ==
    pcTree = "done" =>
        \A arr \in ForestArrays :
            \A p, q \in DOMAIN arr :
                (p < q /\ comments[arr[p]].createdAt = comments[arr[q]].createdAt)
                    => arr[p] < arr[q]

\* an array of the forest that the sort reordered and that holds two comments
\* with equal createdAt
C8_Witness ==
    /\ pcTree = "done"
    /\ \E arr \in ForestArrays :
        /\ \E p, q \in DOMAIN arr :
            p < q /\ comments[arr[p]].createdAt = comments[arr[q]].createdAt
        /\ \E p, q \in DOMAIN arr : p < q /\ arr[p] > arr[q]

\* C9: the build terminates for every finite flat list, also when the parent
\* references form a cycle (a comment that is its own parent, a chain
\* A -> B -> A): the recursive sort never exhausts the call stack and the
\* forest is returned.
C9_BuildTerminates == [](pcTree /= "overflow") /\ <>(pcTree = "done")

\* a finished build of a list holding a self-parent or a two-comment cycle
C9_Witness ==
    /\ pcTree = "done"
    /\ \E i, j \in DOMAIN comments :
        /\ comments[i].parentId = Some(j)
        /\ comments[j].parentId = Some(i)

(***************************************************************************)
(* Properties of the mention extraction                                    *)
(***************************************************************************)
\* the mention tokens of a text: in each maximal run of non-whitespace
\* characters, what follows the first at sign that is not the end of the run
TokenPairs(text) ==
    {q \in (DOMAIN text) \X (DOMAIN text) :
        /\ q[1] < q[2]
        /\ text[q[1]] = "@"
        /\ \A j \in q[1] .. q[2] : text[j] \notin Whitespace
        /\ q[2] = Len(text) \/ text[q[2] + 1] \in Whitespace
        /\ \A j \in 1 .. q[1] - 1 :
              text[j] = "@" => \E k \in j .. q[1] : text[k] \in Whitespace}

TokenSet(text) == {SubSeq(text, p[1] + 1, p[2]) : p \in TokenPairs(text)}

UserNames == {DEMO_USERS[k].name : k \in DOMAIN DEMO_USERS}
ResolvedIds(text) ==
    {DEMO_USERS[k].id : k \in {j \in DOMAIN DEMO_USERS : DEMO_USERS[j].name \in TokenSet(text)}}

\* C10: every mention token (an at sign and the maximal run of non-whitespace
\* characters behind it) is resolved by exact equality of the token text with
\* a directory user's name, and a token that matches no user adds nothing to
\* the mention list, in the comment input and in the action tracker alike.
C10_ExactResolution ==
    /\ submittedMentions /= None => Range(submittedMentions[1]) = ResolvedIds(typed)
    /\ activityMentions /= None => Range(activityMentions[1]) = TokenSet(typed) \cap UserNames

\* position of the at sign of the first token of the text that reads name
FirstAt(text, name) ==
    LET starts == {p[1] : p \in {q \in TokenPairs(text) : SubSeq(text, q[1] + 1, q[2]) = name}}
    IN  CHOOSE p \in starts : \A r \in starts : p <= r

UserName(id) == DEMO_USERS[CHOOSE k \in DOMAIN DEMO_USERS : DEMO_USERS[k].id = id].name

\* the names are tokens of the text, each once, by first occurrence
OnceInOrder(names, text) ==
    /\ Range(names) \subseteq TokenSet(text)
    /\ \A p, q \in DOMAIN names :
          p < q => /\ names[p] /= names[q]
                   /\ FirstAt(text, names[p]) < FirstAt(text, names[q])

\* C11: the mention list extracted from one comment text holds each mentioned
\* user at most once, in the order of the first occurrence in the text,
\* however often the user is mentioned, in the comment input and in the
\* action tracker alike.
C11_MentionsOnceInOrder ==
    /\ submittedMentions /= None =>
          OnceInOrder([k \in DOMAIN submittedMentions[1] |-> UserName(submittedMentions[1][k])], typed)
    /\ activityMentions /= None => OnceInOrder(activityMentions[1], typed)

(***************************************************************************)
(* Properties of the reaction toggle                                       *)
(***************************************************************************)
EmojisOf(reactions) == {reactions[k].emoji : k \in DOMAIN reactions}
UsersOf(reactions, emoji) ==
    UNION {Range(reactions[k].users) : k \in {j \in DOMAIN reactions : reactions[j].emoji = emoji}}

\* the reactions after of a comment are the reactions before with user's click on emoji
Toggled(before, after, emoji, user) ==
    /\ emoji \notin EmojisOf(before) =>
          after = Append(before, [emoji |-> emoji, users |-> <<user>>])
    /\ emoji \in EmojisOf(before) /\ user \notin UsersOf(before, emoji) =>
          /\ EmojisOf(after) = EmojisOf(before)
          /\ UsersOf(after, emoji) = UsersOf(before, emoji) \cup {user}
    /\ user \in UsersOf(before, emoji) =>
          /\ UsersOf(after, emoji) = UsersOf(before, emoji) \ {user}
          /\ emoji \in EmojisOf(after) <=> UsersOf(before, emoji) /= {user}
          /\ \A k \in DOMAIN after : after[k].users /= <<>>
    /\ \A other \in (EmojisOf(before) \cup EmojisOf(after)) \ {emoji} :
          /\ other \in EmojisOf(before) /\ other \in EmojisOf(after)
          /\ UsersOf(after, other) = UsersOf(before, other)

\* the emojis a click can send for activity k of the selected action
Clickable(k) == Emojis \cup EmojisOf(selectedAction[1].activities[k].reactions)

\* C12: a reaction toggle by user u with emoji e on a comment creates the
\* entry {e, [u]} when the comment has no entry for e, adds u to the entry
\* when it does not hold u, and otherwise takes u out of it and removes the
\* entry when no user is left; the other entries keep their users.
C12_ToggleEffect ==
    [][selectedAction /= None =>
          \A k \in DOMAIN selectedAction[1].activities : \A emoji \in Clickable(k) :
              HandleAddReaction(selectedAction[1].activities[k].id, emoji) =>
                  /\ \A j \in DOMAIN selectedAction[1].activities :
                        selectedAction[1].activities[j].id = selectedAction[1].activities[k].id =>
                            Toggled(selectedAction[1].activities[j].reactions,
                                    selectedAction'[1].activities[j].reactions,
                                    emoji, CURRENT_USER.name)
                  /\ \A a \in DOMAIN actions : \A j \in DOMAIN actions[a].activities :
                        /\ actions[a].id = selectedAction[1].id
                        /\ actions[a].activities[j].id = selectedAction[1].activities[k].id
                        => Toggled(actions[a].activities[j].reactions,
                                   actions'[a].activities[j].reactions,
                                   emoji, CURRENT_USER.name)]_vars

\* a comment added in the tracker carries the entry a click made
C12_Witness ==
    \E a \in DOMAIN actions : \E j \in DOMAIN actions[a].activities :
        /\ actions[a].activities[j].id[1] = "act"
        /\ actions[a].activities[j].reactions =
              <<[emoji |-> "thumbsup", users |-> <<CURRENT_USER.name>>]>>

\* C13: toggling the same (emoji, user) pair twice in a row returns the
\* comment's reactions to what they were before the two toggles, for every
\* starting reaction state, also when the user is not the last user of the
\* entry and when the entry is not the last entry.
C13_DoubleToggleCancels ==
    [][selectedAction /= None =>
          \A k \in DOMAIN selectedAction[1].activities : \A emoji \in Emojis :
              HandleAddReaction(selectedAction[1].activities[k].id, emoji) =>
                  ToggleReaction(selectedAction'[1].activities[k].reactions, emoji,
                                 CURRENT_USER.name)
                      = selectedAction[1].activities[k].reactions]_vars

WellFormed(reactions) ==
    /\ \A p, q \in DOMAIN reactions : p /= q => reactions[p].emoji /= reactions[q].emoji
    /\ \A k \in DOMAIN reactions :
          /\ reactions[k].users /= <<>>
          /\ \A p, q \in DOMAIN reactions[k].users :
                p /= q => reactions[k].users[p] /= reactions[k].users[q]

\* C14: after any sequence of reaction toggles from a well-formed comment,
\* the comment's reactions never hold two entries with the same emoji, no
\* entry holds the same user twice, and no entry has an empty user set.
C14_ReactionsWellFormed ==
    /\ \A a \in DOMAIN actions : \A j \in DOMAIN actions[a].activities :
          WellFormed(actions[a].activities[j].reactions)
    /\ selectedAction /= None =>
          \A j \in DOMAIN selectedAction[1].activities :
              WellFormed(selectedAction[1].activities[j].reactions)

\* the user has joined the entry of another user of a seeded comment and
\* has reacted to a comment added in the tracker
C14_Witness ==
    \E a \in DOMAIN actions : \E i, j \in DOMAIN actions[a].activities :
        /\ actions[a].activities[i].id[1] = "seed"
        /\ \E k \in DOMAIN actions[a].activities[i].reactions :
              {CURRENT_USER.name, OtherUserName}
                  \subseteq Range(actions[a].activities[i].reactions[k].users)
        /\ actions[a].activities[j].id[1] = "act"
        /\ actions[a].activities[j].reactions /= <<>>

(***************************************************************************)
(* Properties of the action status                                         *)
(***************************************************************************)
\* a click on a status button that leaves the selected action in status t
MoveTo(t) == ClickStatus /\ selectedAction'[1].status = t

C15_ReadIsMonotonic ==
    [][\A k \in DOMAIN notifications :
          /\ k \in DOMAIN notifications'
          /\ notifications'[k].id = notifications[k].id
          /\ notifications[k].isRead => notifications'[k].isRead]_vars

\* the demo feed after a click on its first notification, the dropdown opened again
C15_Witness ==
    /\ Len(notifications) = Len(DEMO_NOTIFICATIONS)
    /\ navigatedTo = Some("a1")
    /\ isOpen
    /\ notifications[1].isRead
    /\ ~notifications[2].isRead

\* C16: after handleMarkAllAsRead every notification is read and the unread count is 0,
\* and applying its updater once more changes nothing: twice is the same as once.
C16_MarkAllIdempotent ==
    [][HandleMarkAllAsRead =>
          /\ MarkAllAsRead(notifications') = notifications'
          /\ MarkAllAsRead(MarkAllAsRead(notifications)) = notifications'
          /\ \A k \in DOMAIN notifications' : notifications'[k].isRead
          /\ unreadCount(notifications') = 0]_vars

\* the demo feed with everything read and no notification clicked: mark all did it
C16_Witness ==
    /\ Len(notifications) = Len(DEMO_NOTIFICATIONS)
    /\ navigatedTo = None
    /\ isOpen
    /\ unreadCount(notifications) = 0

(***************************************************************************)
(* Comment submission properties                                           *)
(***************************************************************************)
\* number of calls of the mention callback for user id u
CallsFor(calls, u) == Cardinality({k \in DOMAIN calls : calls[k].userId = u})

UserIds == {DEMO_USERS[k].id : k \in DOMAIN DEMO_USERS}

\* C17: with the mention callback given, a submitted comment or reply calls it exactly
\* once for each user of the submitted mention list and for nobody else, so not at all
\* for an empty list; a reply without a reply target is not submitted and calls nothing.
C17_OneCallPerMentionedUser ==
    /\ [][HandleSubmitComment \/ HandleSubmitReply =>
            /\ mentionCalls' /= None
            /\ addedComment' /= None
            /\ onMentionUser =>
                 \A u \in UserIds :
                     CallsFor(mentionCalls'[1], u) =
                         IF u \in Range(addedComment'[1].mentions) THEN 1 ELSE 0
            /\ \A k \in DOMAIN mentionCalls'[1] :
                 mentionCalls'[1][k].commentId =
                     IF addedComment'[1].parentId = None THEN "new" ELSE "reply"]_vars
    /\ [][replyingTo = None /\ mentionCalls' /= mentionCalls => HandleSubmitComment]_vars
    /\ [](replyingTo = None => ~ENABLED HandleSubmitReply)

\* a reply that names one user twice and another once has called back once for each
C17_Witness ==
    /\ onMentionUser
    /\ addedComment /= None
    /\ addedComment[1].parentId /= None
    /\ mentionCalls /= None
    /\ Len(mentionCalls[1]) = 1
    /\ typed = <<"@", "a", " ", "@", "a">>

(***************************************************************************)
(* Year-to-date properties                                                 *)
(***************************************************************************)
\* sum of f[k] over the finite set S of indices
RECURSIVE SumOver(_, _)
SumOver(S, f) ==
    IF S = {} THEN 0
    ELSE LET k == CHOOSE x \in S : TRUE IN f[k] + SumOver(S \ {k}, f)

\* the closed months of the company series at or before month m: those with an actual
ClosedUpTo(series, m) == {k \in DOMAIN series : k <= m /\ series[k].actual /= None}

\* the closed months of the dashboard dataset at or before month m
ClosedMonthsUpTo(m) == {k \in DOMAIN monthlyDataset : k <= m /\ monthlyDataset[k].isClosed}

\* C20: the year-to-date actual is the sum of the actuals of the closed months at or
\* before the requested month, and the year-to-date budget is the sum of the budgets of
\* those same months; an open month adds to neither, also when the requested month lies
\* after the last closed month.  In generateTimeSeriesData the requested month is the
\* fixed current month, in the dashboard it is the selected month.
C20_YtdOverClosedMonths ==
    /\ timeSeries /= None =>
         LET series == timeSeries[1].companyRevenue
             window == ClosedUpTo(series, timeSeries[1].currentMonth)
             ActualOf == [k \in window |-> series[k].actual[1]]
             BudgetOf == [k \in window |-> series[k].budget]
         IN  /\ timeSeries[1].ytd.actual = SumOver(window, ActualOf)
             /\ timeSeries[1].ytd.budget = SumOver(window, BudgetOf)
             /\ timeSeries[1].ytdProfit.actual = SumOver(window, ActualOf) * AvgMargin
             /\ timeSeries[1].ytdProfit.budget = SumOver(window, BudgetOf) * AvgMargin
             /\ \A m \in DOMAIN series :
                    m >= timeSeries[1].currentMonth => ClosedUpTo(series, m) = window
    /\ selectedMonth \in DOMAIN monthlyDataset =>
         LET window == ClosedMonthsUpTo(selectedMonth)
             ActualOf == [k \in window |-> monthlyDataset[k].actual[1]]
             BudgetOf == [k \in window |-> monthlyDataset[k].budget]
         IN  /\ ytdData.actual = IF window = {} THEN None ELSE Some(SumOver(window, ActualOf))
             /\ ytdData.budget = SumOver(window, BudgetOf)

\* the series is generated, and the dashboard shows an open month that follows two
\* closed ones: the year-to-date figures are those of the two closed months
C20_Witness ==
    /\ timeSeries /= None
    /\ Len(monthlyDataset) = 3
    /\ selectedMonth = 3
    /\ ~monthlyDataset[3].isClosed
    /\ monthlyDataset[1].isClosed
    /\ monthlyDataset[2].isClosed
    /\ ytdData.actual = Some(monthlyDataset[1].actual[1] + monthlyDataset[2].actual[1])
    /\ ytdData.budget = monthlyDataset[1].budget + monthlyDataset[2].budget

\* the months of the dashboard dataset that are closed, and those that are open
ClosedMonths == {k \in DOMAIN monthlyDataset : monthlyDataset[k].isClosed}
OpenMonths == {k \in DOMAIN monthlyDataset : ~monthlyDataset[k].isClosed}

ValueAt(m) == IF m \in DOMAIN monthlyDataset THEN Some(monthlyDataset[m]) ELSE None

\* the actual of month m is known
Known(m) == ValueAt(m) /= None /\ ValueAt(m)[1].actual /= None

Shown(action) ==
    [status |-> action.status, action |-> action.action, assignee |-> action.assignee,
     dueDate |-> action.dueDate,
     completed |-> [k \in DOMAIN action.subTasks |-> action.subTasks[k].completed],
     types |-> [k \in DOMAIN action.activities |-> action.activities[k].type],
     reactions |-> [k \in DOMAIN action.activities |-> action.activities[k].reactions]]

\* C23: whenever an action is selected, the selected copy shows the same status, action
\* text, assignee, due date, subtask completion flags, activity types and reactions as
\* the entry of the list with the same id.
C23_SelectedMatchesList ==
    selectedAction /= None =>
        \A k \in DOMAIN actions :
            actions[k].id = selectedAction[1].id => Shown(actions[k]) = Shown(selectedAction[1])

\* C23 where the ids of the list are pairwise distinct: the selected action is in the
\* list, and the two copies show the same
C23_MatchesUnderDistinctIds ==
    (selectedAction /= None /\ DistinctIds(actions)) =>
        \E k \in DOMAIN actions :
            /\ actions[k].id = selectedAction[1].id
            /\ Shown(actions[k]) = Shown(selectedAction[1])

\* C24: building the tree does not mutate its input: through both passes and the sort
\* the flat list keeps its length and order and every comment its fields, and no
\* comment of the list gains or changes a replies array.
C24_BuildLeavesInputAlone ==
    [][(BuildTree \/ SortRepliesStep) => (comments' = comments /\ inputReplies' = inputReplies)]_vars

\* the build has returned a forest in which a comment of the list has a reply, and
\* the objects of the list still have no replies
C24_Witness ==
    /\ pcTree = "done"
    /\ \E id \in DOMAIN byId : byId[id] /= <<>>
    /\ \A id \in DOMAIN inputReplies : inputReplies[id] \in {None, Some(<<>>)}
    /\ \E id \in DOMAIN inputReplies : inputReplies[id] = None

\* comment id stands once in the returned forest: once in the root array and in no
\* replies array of the forest, or in no root array and once in one replies array
OnceInForest(id) ==
    LET holders == {p \in InForest : id \in Range(byId[p])}
    IN  \/ Occurrences(commentTree[1], id) = 1 /\ holders = {}
        \/ /\ id \notin Roots
           /\ Cardinality(holders) = 1
           /\ \A p \in holders : Occurrences(byId[p], id) = 1

\* following parentId from comment id for at most n steps ends at a comment without a
\* parent in the list
RECURSIVE EndsAtRoot(_, _, _)
EndsAtRoot(cs, id, n) ==
    \/ ~HasParent(cs, id)
    \/ n > 0 /\ EndsAtRoot(cs, cs[id].parentId[1], n - 1)

\* C25: every comment of the flat list appears exactly once in the returned forest,
\* as a root or in exactly one replies array reachable from a root, also when the
\* parent references dangle, point at the comment itself or form a cycle.
C25_EveryCommentOnce ==
    pcTree = "done" => \A id \in DOMAIN comments : OnceInForest(id)

\* C25 for the comments whose chain of parents ends: each of them stands once in the
\* returned forest, and every other comment of the list is in no array of it
C25_OnceUnlessCyclic ==
    pcTree = "done" =>
        \A id \in DOMAIN comments :
            IF EndsAtRoot(comments, id, Len(comments)) THEN OnceInForest(id)
            ELSE id \notin InForest

\* the ids an action can have: the seeded one and those of the clock readings
ActionIds == {<<"seed", 1>>} \cup {<<"a", t>> : t \in 0 .. MaxClock}

\* entry k of the list after a status change to newStatus: one status_change activity
\* with the labels of the entry's old status and of newStatus behind the activities it
\* had, the new status, and every other field as before
StatusChanged(k, newStatus) ==
    /\ Len(actions'[k].activities) = Len(actions[k].activities) + 1
    /\ SubSeq(actions'[k].activities, 1, Len(actions[k].activities)) = actions[k].activities
    /\ LET activity == actions'[k].activities[Len(actions'[k].activities)]
       IN  /\ activity.type = "status_change"
           /\ activity.from = Some(getStatusLabel(actions[k].status))
           /\ activity.to = Some(getStatusLabel(newStatus))
    /\ actions'[k] = [actions[k] EXCEPT !.status = newStatus,
                                       !.activities = actions'[k].activities]

\* C26: a status change on an action of the list appends exactly one status_change
\* activity with the old and the new status label to that action's activities, also
\* when the new status is the old one, keeps its earlier activities in order and
\* leaves every other action of the list unchanged; a status change for an id that is
\* not in the list changes nothing (the handler takes no step).
C26_StatusChangeFrame ==
    /\ [](\A id \in ActionIds : \A newStatus \in StatusButtons :
             (\A k \in DOMAIN actions : actions[k].id /= id)
                 => ~ENABLED HandleStatusChange(id, newStatus))
    /\ [][\A id \in ActionIds : \A newStatus \in StatusButtons :
             HandleStatusChange(id, newStatus) =>
                 /\ DOMAIN actions' = DOMAIN actions
                 /\ \E k \in DOMAIN actions :
                        /\ actions[k].id = id
                        /\ StatusChanged(k, newStatus)
                        /\ \A j \in DOMAIN actions \ {k} : actions'[j] = actions[j]]_vars

\* C26 while the ids of the list are pairwise distinct
C26_FrameUnderDistinctIds ==
    /\ [](\A id \in ActionIds : \A newStatus \in StatusButtons :
             (\A k \in DOMAIN actions : actions[k].id /= id)
                 => ~ENABLED HandleStatusChange(id, newStatus))
    /\ [][\A id \in ActionIds : \A newStatus \in StatusButtons :
             (DistinctIds(actions) /\ HandleStatusChange(id, newStatus)) =>
                 /\ DOMAIN actions' = DOMAIN actions
                 /\ \E k \in DOMAIN actions :
                        /\ actions[k].id = id
                        /\ StatusChanged(k, newStatus)
                        /\ \A j \in DOMAIN actions \ {k} : actions'[j] = actions[j]]_vars

\* C28: after any sequence of create-action operations the actions of the list have
\* pairwise distinct ids, also when two of them are created at the same clock reading.
C28_DistinctActionIds == DistinctIds(actions)

\* C28 for the actions created at different clock readings, and for the seeded ones
C28_DistinctAcrossReadings ==
    [][HandleCreateAction =>
          \A k \in DOMAIN actions :
              actions[k].id /= <<"a", now>> => actions[k].id /= actions'[Len(actions')].id]_vars

(***************************************************************************)
(* Properties of the reply depth                                           *)
(***************************************************************************)
\* the number of parents above comment id, following parentId for at most n steps
RECURSIVE ChainLength(_, _, _)
ChainLength(cs, id, n) ==
    IF ~HasParent(cs, id) \/ n = 0 THEN 0
    ELSE 1 + ChainLength(cs, cs[id].parentId[1], n - 1)

\* the comments on screen: those whose chain of parents ends at a root of the forest
OnScreen(cs) == {id \in DOMAIN cs : EndsAtRoot(cs, id, Len(cs))}

\* C27: replies made through the comment UI never nest deeper than depth 3: a reply
\* is started only on a comment rendered at depth < 3, every comment on screen is at
\* depth at most 3 after any sequence of new comments and of replies started,
\* cancelled and submitted, and a submitted reply's parentId is the id of the comment
\* that was being replied to.
C27_RepliesAtMostDepthThree ==
    /\ [](\A id \in OnScreen(comments) : ChainLength(comments, id, Len(comments)) <= 3)
    /\ [][ClickReply =>
             /\ replyingTo'[1] \in OnScreen(comments)
             /\ ChainLength(comments, replyingTo'[1], Len(comments)) < 3]_vars
    /\ [][HandleSubmitReply =>
             /\ addedComment'[1].parentId = replyingTo
             /\ Len(comments') = Len(comments) + 1
             /\ SubSeq(comments', 1, Len(comments)) = comments
             /\ comments'[Len(comments')].parentId = replyingTo]_vars

\* a submitted reply stands at depth 3, and the comment it replies to at depth 2
C27_Witness ==
    /\ ownerAppends
    /\ addedComment /= None
    /\ addedComment[1].parentId /= None
    /\ replyingTo = None
    /\ LET last == Len(comments)
       IN  /\ last > 0
           /\ comments[last].parentId = addedComment[1].parentId
           /\ last \in OnScreen(comments)
           /\ ChainLength(comments, last, last) = 3

(***************************************************************************)
(* Properties of the progress bar                                          *)
(***************************************************************************)
\* the actions of the list that handleCreateAction made
CreatedActions == {k \in DOMAIN actions : actions[k].id[1] = "a"}

\* C29: the progress ratio (current - before) / (target - before) never has a zero
\* denominator for an action created from a detected issue: an issue is detected only
\* for a gross margin strictly below the warning threshold, and the created action has
\* before = current = that margin and target = the threshold, so target - before > 0;
\* its progress is 0 at creation and the bar is within [0, 100] whenever it is shown.
C29_ProgressDenominatorNonZero ==
    /\ [](/\ \A i \in DOMAIN detectedIssues :
                detectedIssues[i].currentValue < detectedIssues[i].targetValue
          /\ Len(detectedIssues)
                = Cardinality({k \in DOMAIN trackerData.margins :
                                  trackerData.margins[k] < trackerData.marginWarning})
          /\ \A k \in CreatedActions :
                /\ actions[k].metrics.target - actions[k].metrics.before > 0
                /\ ProgressWidth(actions[k].metrics) /= NaN
          /\ (ProgressBar /= None /\ selectedAction[1].id[1] = "a") =>
                /\ ProgressBar[1] /= NaN
                /\ 0 <= ProgressBar[1].num
                /\ ProgressBar[1].num <= 100 * ProgressBar[1].den)
    /\ [][HandleCreateAction =>
             LET made == actions'[Len(actions')]
             IN  /\ \E i \in DOMAIN detectedIssues :
                        /\ made.metrics.before = detectedIssues[i].currentValue
                        /\ made.metrics.current = detectedIssues[i].currentValue
                        /\ made.metrics.target = detectedIssues[i].targetValue
                 /\ made.metrics.target = trackerData.marginWarning
                 /\ made.metrics.before < trackerData.marginWarning
                 /\ ProgressWidth(made.metrics) = [num |-> 0, den |-> 1]
                 /\ selectedAction' = Some(made)]_vars

\* the bar of a created action is on screen, at 0, while a margin of the data equals
\* the threshold and has no issue
C29_Witness ==
    /\ selectedAction /= None
    /\ selectedAction[1].id[1] = "a"
    /\ ProgressBar = Some([num |-> 0, den |-> 1])
    /\ \E k \in DOMAIN trackerData.margins : trackerData.margins[k] = trackerData.marginWarning
    /\ \E k \in CreatedActions : actions[k] = selectedAction[1]

\* the notifications of the list with the given id
WithId(list, id) == {k \in DOMAIN list : list[k].id = id}

\* C30: handleMarkAsRead(id) changes only the isRead flag of the notification with
\* that id: the list keeps its length and order, every other notification is
\* unchanged, and the unread count goes down by exactly 1 when the target was unread
\* and by 0 when it was already read or the id matches no notification.
C30_MarkReadFrame ==
    [][\A id \in NotificationIds :
          HandleMarkAsRead(id) =>
              /\ DOMAIN notifications' = DOMAIN notifications
              /\ \A k \in DOMAIN notifications :
                     IF notifications[k].id = id
                     THEN notifications'[k] = [notifications[k] EXCEPT !.isRead = TRUE]
                     ELSE notifications'[k] = notifications[k]
              /\ unreadCount(notifications')
                     = unreadCount(notifications)
                         - (IF \E k \in WithId(notifications, id) : ~notifications[k].isRead
                            THEN 1 ELSE 0)
              /\ (\A k \in WithId(notifications, id) : notifications[k].isRead)
                     => notifications' = notifications]_vars

\* handleMarkAsRead has been called with the id of no notification of a list in which
\* one notification is read and another unread
C30_Witness ==
    /\ markedId /= None
    /\ WithId(notifications, markedId[1]) = {}
    /\ \E j, k \in DOMAIN notifications : notifications[j].isRead /\ ~notifications[k].isRead

====
